---- MODULE Spec2Model ----
(***************************************************************************)
(* Application data storage of aidc-toolkit/core: the AppData codec        *)
(* (encodeAppData / decodeAppData), the storage base classes               *)
(* (ReadOnlyAppDataStorage / AppDataStorage) and the file, browser and     *)
(* remote storage providers.                                               *)
(*                                                                         *)
(* Texts are TLA+ strings (Len, \o and SubSeq work on them), so the wire   *)
(* format is produced and parsed character by character.                   *)
(***************************************************************************)
EXTENDS Integers, Sequences, FiniteSets, TLC

(***************************************************************************)
(* JavaScript values.  Every value is a record whose field "kind" names    *)
(* its type; "val" carries the payload.                                    *)
(*   string   val: a string                                                *)
(*   number   val: an integer                                              *)
(*   boolean  val: TRUE / FALSE                                            *)
(*   null, undefined                                                       *)
(*   date     val: the instant as its UTC fields <<y, mo, d, h, mi, s, ms>>*)
(*            (the instant in milliseconds does not fit TLC's integers),   *)
(*            or <<>> for an Invalid Date                                  *)
(*   binary   val: the Uint8Array's bytes, a sequence of 0..255            *)
(*   array    val: the elements, a sequence of values                      *)
(*   object   val: the own enumerable properties in enumeration order, a   *)
(*            sequence of <<key, value>>                                   *)
(***************************************************************************)
Str(s) == [kind |-> "string", val |-> s]
Num(n) == [kind |-> "number", val |-> n]
Bool(b) == [kind |-> "boolean", val |-> b]
Null == [kind |-> "null"]
Undefined == [kind |-> "undefined"]
DateOf(f) == [kind |-> "date", val |-> f]
InvalidDate == [kind |-> "date", val |-> <<>>]
Bin(bytes) == [kind |-> "binary", val |-> bytes]
Arr(elems) == [kind |-> "array", val |-> elems]
Obj(entries) == [kind |-> "object", val |-> entries]

\* The result of a computation that may throw.
Ok(v) == [ok |-> TRUE, val |-> v]
Throw(e) == [ok |-> FALSE, err |-> e]

\* An error object: its class, its message (for a localized message the
\* resource key) and the status the message was built with, if any.
JSError(name) == [name |-> name, message |-> "", status |-> 0]

(***************************************************************************)
(* Characters and strings.                                                 *)
(***************************************************************************)
CharAt(s, i) == SubSeq(s, i, i)

StartsWith(s, prefix) == Len(s) >= Len(prefix) /\ SubSeq(s, 1, Len(prefix)) = prefix

Digits == "0123456789"

WordChars == "ABCDEFGHIJKLMNOPQRSTUVWXYZabcdefghijklmnopqrstuvwxyz0123456789_"

Base64Chars == "ABCDEFGHIJKLMNOPQRSTUVWXYZabcdefghijklmnopqrstuvwxyz0123456789+/"

\* The index of character c in string s, 0 when s does not hold it.
IndexOf(s, c) ==
    LET hits == {i \in 1..Len(s) : CharAt(s, i) = c}
    IN  IF hits = {} THEN 0 ELSE CHOOSE i \in hits : \A j \in hits : i <= j

CharsOf(s) == {CharAt(s, i) : i \in 1..Len(s)}

DigitSet == CharsOf(Digits)

WordCharSet == CharsOf(WordChars)

IsDigit(c) == c \in DigitSet

\* \w of a regular expression.
IsWordChar(c) == c \in WordCharSet

(***************************************************************************)
(* Numbers as decimal text.                                                *)
(***************************************************************************)
RECURSIVE NatToStr(_)
NatToStr(n) ==
    IF n < 10 THEN CharAt(Digits, n + 1)
    ELSE NatToStr(n \div 10) \o CharAt(Digits, (n % 10) + 1)

IntToStr(n) == IF n < 0 THEN "-" \o NatToStr(-n) ELSE NatToStr(n)

\* n in decimal, left-padded with zeros to the given width.
RECURSIVE PadStart(_, _)
PadStart(n, width) ==
    IF width <= 1 THEN NatToStr(n)
    ELSE IF Len(NatToStr(n)) >= width THEN NatToStr(n)
    ELSE "0" \o PadStart(n, width - 1)

\* The value of a string of digits.
RECURSIVE StrToNat(_)
StrToNat(s) ==
    IF Len(s) = 0 THEN 0
    ELSE StrToNat(SubSeq(s, 1, Len(s) - 1)) * 10 + (IndexOf(Digits, CharAt(s, Len(s))) - 1)

AllDigits(s) == \A i \in 1..Len(s) : IsDigit(CharAt(s, i))

(***************************************************************************)
(* Date.prototype.toISOString and the Date constructor on a string.        *)
(***************************************************************************)
DaysInMonth(y, mo) ==
    IF mo \in {4, 6, 9, 11} THEN 30
    ELSE IF mo # 2 THEN 31
    ELSE IF (y % 4 = 0 /\ y % 100 # 0) \/ y % 400 = 0 THEN 29 ELSE 28

\* An encodeObject's date without the milliseconds.
toISOStringNoMillis(d) ==
    IF d.val = <<>> THEN Throw(JSError("RangeError"))
    ELSE Ok(PadStart(d.val[1], 4) \o "-" \o PadStart(d.val[2], 2) \o "-"
            \o PadStart(d.val[3], 2) \o "T" \o PadStart(d.val[4], 2) \o ":"
            \o PadStart(d.val[5], 2) \o ":" \o PadStart(d.val[6], 2) \o "Z")

\* YYYY-MM-DDTHH:mm:ss.sssZ; a RangeError for an Invalid Date.
toISOString(d) ==
    IF d.val = <<>> THEN Throw(JSError("RangeError"))
    ELSE Ok(PadStart(d.val[1], 4) \o "-" \o PadStart(d.val[2], 2) \o "-"
            \o PadStart(d.val[3], 2) \o "T" \o PadStart(d.val[4], 2) \o ":"
            \o PadStart(d.val[5], 2) \o ":" \o PadStart(d.val[6], 2) \o "."
            \o PadStart(d.val[7], 3) \o "Z")

\* new Date(s): the instant of a string in the toISOString format, an
\* Invalid Date for a string that is no date at all.
NewDate(s) ==
    IF /\ Len(s) = 24
       /\ AllDigits(SubSeq(s, 1, 4)) /\ CharAt(s, 5) = "-"
       /\ AllDigits(SubSeq(s, 6, 7)) /\ CharAt(s, 8) = "-"
       /\ AllDigits(SubSeq(s, 9, 10)) /\ CharAt(s, 11) = "T"
       /\ AllDigits(SubSeq(s, 12, 13)) /\ CharAt(s, 14) = ":"
       /\ AllDigits(SubSeq(s, 15, 16)) /\ CharAt(s, 17) = ":"
       /\ AllDigits(SubSeq(s, 18, 19)) /\ CharAt(s, 20) = "."
       /\ AllDigits(SubSeq(s, 21, 23)) /\ CharAt(s, 24) = "Z"
    THEN LET y == StrToNat(SubSeq(s, 1, 4))
             mo == StrToNat(SubSeq(s, 6, 7))
             d == StrToNat(SubSeq(s, 9, 10))
             h == StrToNat(SubSeq(s, 12, 13))
             mi == StrToNat(SubSeq(s, 15, 16))
             sec == StrToNat(SubSeq(s, 18, 19))
             ms == StrToNat(SubSeq(s, 21, 23))
         IN  IF /\ mo \in 1..12 /\ d \in 1..DaysInMonth(y, mo)
                /\ h \in 0..23 /\ mi \in 0..59 /\ sec \in 0..59
             THEN DateOf(<<y, mo, d, h, mi, sec, ms>>)
             ELSE InvalidDate
    ELSE InvalidDate

(***************************************************************************)
(* base64-js: fromByteArray and toByteArray.                               *)
(***************************************************************************)
B64(n) == CharAt(Base64Chars, n + 1)

RECURSIVE fromByteArray(_)
fromByteArray(bytes) ==
    IF Len(bytes) = 0 THEN ""
    ELSE IF Len(bytes) = 1 THEN
        B64(bytes[1] \div 4) \o B64((bytes[1] % 4) * 16) \o "=="
    ELSE IF Len(bytes) = 2 THEN
        B64(bytes[1] \div 4) \o B64((bytes[1] % 4) * 16 + bytes[2] \div 16)
            \o B64((bytes[2] % 16) * 4) \o "="
    ELSE
        B64(bytes[1] \div 4) \o B64((bytes[1] % 4) * 16 + bytes[2] \div 16)
            \o B64((bytes[2] % 16) * 4 + bytes[3] \div 64) \o B64(bytes[3] % 64)
            \o fromByteArray(SubSeq(bytes, 4, Len(bytes)))

\* revLookup: the 6-bit value of a character, 0 for one outside the
\* alphabet ("-" and "_" are accepted for "+" and "/").
RevLookup(c) ==
    IF c = "-" THEN 62
    ELSE IF c = "_" THEN 63
    ELSE IF IndexOf(Base64Chars, c) > 0 THEN IndexOf(Base64Chars, c) - 1
    ELSE 0

RECURSIVE DecodeQuads(_)
DecodeQuads(s) ==
    IF Len(s) = 0 THEN <<>>
    ELSE LET a == RevLookup(CharAt(s, 1))
             b == RevLookup(CharAt(s, 2))
             c == RevLookup(CharAt(s, 3))
             d == RevLookup(CharAt(s, 4))
         IN  <<a * 4 + b \div 16, (b % 16) * 16 + c \div 4, (c % 4) * 64 + d>>
                 \o DecodeQuads(SubSeq(s, 5, Len(s)))

\* A sequence cut or zero-filled to length n (a typed array has a fixed
\* length and starts as zeros).
Fit(bytes, n) == [i \in 1..n |-> IF i <= Len(bytes) THEN bytes[i] ELSE 0]

\* Throws when the length is no multiple of 4; everything from the first
\* "=" on is placeholder.
toByteArray(b64) ==
    IF Len(b64) % 4 > 0 THEN Throw(JSError("Error"))
    ELSE LET eq == IndexOf(b64, "=")
             validLen == IF eq = 0 THEN Len(b64) ELSE eq - 1
             placeHoldersLen == IF validLen = Len(b64) THEN 0 ELSE 4 - (validLen % 4)
             byteLength == ((validLen + placeHoldersLen) * 3) \div 4 - placeHoldersLen
             len == IF placeHoldersLen > 0 THEN validLen - 4 ELSE validLen
             i == IF len <= 0 THEN 0 ELSE ((len + 3) \div 4) * 4
             full == DecodeQuads(SubSeq(b64, 1, i))
             a == RevLookup(CharAt(b64, i + 1))
             b == RevLookup(CharAt(b64, i + 2))
             c == RevLookup(CharAt(b64, i + 3))
             arr == IF placeHoldersLen = 2 THEN full \o <<(a * 4 + b \div 16) % 256>>
                    ELSE IF placeHoldersLen = 1
                        THEN full \o <<(a * 4 + b \div 16) % 256, ((b % 16) * 16 + c \div 4) % 256>>
                    ELSE full
         IN  IF byteLength < 0 THEN Throw(JSError("RangeError")) ELSE Ok(Fit(arr, byteLength))

(***************************************************************************)
(* JSON.stringify.                                                         *)
(***************************************************************************)
\* The two-character escape of a character that needs one, else itself.
EscapeChar(c) ==
    IF c = "\"" THEN "\\\""
    ELSE IF c = "\\" THEN "\\\\"
    ELSE IF c = "\n" THEN "\\n"
    ELSE c

RECURSIVE EscapeChars(_)
EscapeChars(s) ==
    IF Len(s) = 0 THEN ""
    ELSE EscapeChar(CharAt(s, 1)) \o EscapeChars(SubSeq(s, 2, Len(s)))

Quote(s) == "\"" \o EscapeChars(s) \o "\""

\* A property whose value is undefined is left out of an object; an
\* undefined array element is written as null.
RECURSIVE JSONstringify(_)
RECURSIVE StringifyEntries(_, _)
RECURSIVE StringifyElements(_)
StringifyEntries(entries, first) ==
    IF Len(entries) = 0 THEN ""
    ELSE IF entries[1][2].kind = "undefined" THEN StringifyEntries(Tail(entries), first)
    ELSE (IF first THEN "" ELSE ",") \o Quote(entries[1][1]) \o ":"
            \o JSONstringify(entries[1][2]) \o StringifyEntries(Tail(entries), FALSE)

StringifyElements(elems) ==
    IF Len(elems) = 0 THEN ""
    ELSE (IF elems[1].kind = "undefined" THEN "null" ELSE JSONstringify(elems[1]))
            \o (IF Len(elems) > 1 THEN "," ELSE "") \o StringifyElements(Tail(elems))

JSONstringify(v) ==
    CASE v.kind = "string" -> Quote(v.val)
      [] v.kind = "number" -> IntToStr(v.val)
      [] v.kind = "boolean" -> (IF v.val THEN "true" ELSE "false")
      [] v.kind = "null" -> "null"
      [] v.kind = "array" -> "[" \o StringifyElements(v.val) \o "]"
      [] v.kind = "object" -> "{" \o StringifyEntries(v.val, TRUE) \o "}"

(***************************************************************************)
(* encodeObject and encodeAppData.                                         *)
(***************************************************************************)
IsObjectType(v) == v.kind \in {"date", "binary", "array", "object"}

\* Object.entries: an array's entries are its indexes as keys, from "0".
ObjectEntries(o) ==
    IF o.kind = "array" THEN [i \in 1..Len(o.val) |-> <<NatToStr(i - 1), o.val[i]>>]
    ELSE o.val

\* The object or string stored for an object; a thrown error is the
\* record Throw(e).
RECURSIVE encodeObject(_)
encodeObject(o) ==
    IF o.kind = "date" THEN
        LET iso == toISOString(o) IN IF iso.ok THEN Str("dateTime:" \o iso.val) ELSE iso
    ELSE IF o.kind = "binary" THEN
        Str("binary:" \o fromByteArray(o.val))
    ELSE
        LET entries == ObjectEntries(o)
            mapped == [i \in 1..Len(entries) |->
                        IF IsObjectType(entries[i][2]) THEN encodeObject(entries[i][2])
                        ELSE entries[i][2]]
        IN  IF \E i \in 1..Len(entries) : "ok" \in DOMAIN mapped[i]
            THEN mapped[CHOOSE i \in 1..Len(entries) :
                           /\ "ok" \in DOMAIN mapped[i]
                           /\ \A j \in 1..(i - 1) : "ok" \notin DOMAIN mapped[j]]
            ELSE Obj([i \in 1..Len(entries) |-> <<entries[i][1], mapped[i]>>])

\* The encoded text as Ok(text), or the error thrown.
encodeAppData(appData) ==
    IF ~IsObjectType(appData) THEN Ok(JSONstringify(appData))
    ELSE LET o == encodeObject(appData)
         IN  IF "ok" \in DOMAIN o THEN o ELSE Ok(JSONstringify(o))

(***************************************************************************)
(* JSON.parse.  A parse step returns [ok, val, pos]: the value read and    *)
(* the position after it, or ok = FALSE for a SyntaxError.  Numbers are    *)
(* integers (no text of the model holds a fraction or an exponent) and     *)
(* strings hold no \u escape.                                              *)
(***************************************************************************)
Parsed(v, p) == [ok |-> TRUE, val |-> v, pos |-> p]
SyntaxError == [ok |-> FALSE]

IsWhitespace(c) == c \in {" ", "\n", "\t", "\r"}

RECURSIVE SkipWhitespace(_, _)
SkipWhitespace(s, p) ==
    IF p <= Len(s) /\ IsWhitespace(CharAt(s, p)) THEN SkipWhitespace(s, p + 1) ELSE p

\* The characters of a string literal from position p (after the opening
\* quote) to its closing quote.
RECURSIVE ScanString(_, _, _)
ScanString(s, p, acc) ==
    IF p > Len(s) THEN SyntaxError
    ELSE LET c == CharAt(s, p) IN
         IF c = "\"" THEN Parsed(Str(acc), p + 1)
         ELSE IF c \in {"\n", "\t", "\r"} THEN SyntaxError
         ELSE IF c = "\\" THEN
            IF p + 1 > Len(s) THEN SyntaxError
            ELSE LET e == CharAt(s, p + 1) IN
                 IF e \in {"\"", "\\", "/"} THEN ScanString(s, p + 2, acc \o e)
                 ELSE IF e = "n" THEN ScanString(s, p + 2, acc \o "\n")
                 ELSE IF e = "t" THEN ScanString(s, p + 2, acc \o "\t")
                 ELSE IF e = "r" THEN ScanString(s, p + 2, acc \o "\r")
                 ELSE SyntaxError
         ELSE ScanString(s, p + 1, acc \o c)

\* The end of the run of digits that starts at p.
RECURSIVE DigitsEnd(_, _)
DigitsEnd(s, p) ==
    IF p <= Len(s) /\ IsDigit(CharAt(s, p)) THEN DigitsEnd(s, p + 1) ELSE p

ParseNumber(s, p) ==
    LET neg == CharAt(s, p) = "-"
        q == IF neg THEN p + 1 ELSE p
        e == DigitsEnd(s, q)
    IN  IF e = q THEN SyntaxError
        ELSE IF e - q > 1 /\ CharAt(s, q) = "0" THEN SyntaxError
        ELSE Parsed(Num(IF neg THEN 0 - StrToNat(SubSeq(s, q, e - 1))
                        ELSE StrToNat(SubSeq(s, q, e - 1))), e)

ParseLiteral(s, p, word, v) ==
    IF p + Len(word) - 1 <= Len(s) /\ SubSeq(s, p, p + Len(word) - 1) = word
    THEN Parsed(v, p + Len(word)) ELSE SyntaxError

\* An array index as a property key: "0", or digits without a leading zero.
IsIndexKey(k) == Len(k) > 0 /\ AllDigits(k) /\ (Len(k) = 1 \/ CharAt(k, 1) # "0")

\* Whether key a is enumerated before key b when b was created first:
\* index keys come first, in ascending order.
EnumeratedBefore(a, b) ==
    IsIndexKey(a) /\ (~IsIndexKey(b) \/ StrToNat(a) < StrToNat(b))

\* Setting property k of an object: an existing property keeps its place.
SetProperty(entries, k, v) ==
    IF \E i \in 1..Len(entries) : entries[i][1] = k
    THEN [i \in 1..Len(entries) |-> IF entries[i][1] = k THEN <<k, v>> ELSE entries[i]]
    ELSE LET n == Cardinality({i \in 1..Len(entries) : ~EnumeratedBefore(k, entries[i][1])})
         IN  SubSeq(entries, 1, n) \o <<<<k, v>>>> \o SubSeq(entries, n + 1, Len(entries))

RECURSIVE ParseValue(_, _)
RECURSIVE ParseElements(_, _, _)
RECURSIVE ParseMembers(_, _, _)

\* The elements of an array from position p, after "[" or a ",".
ParseElements(s, p, acc) ==
    LET r == ParseValue(s, p) IN
    IF ~r.ok THEN SyntaxError
    ELSE LET q == SkipWhitespace(s, r.pos) IN
         IF q > Len(s) THEN SyntaxError
         ELSE IF CharAt(s, q) = "," THEN ParseElements(s, q + 1, Append(acc, r.val))
         ELSE IF CharAt(s, q) = "]" THEN Parsed(Arr(Append(acc, r.val)), q + 1)
         ELSE SyntaxError

\* The members of an object from position p, after "{" or a ",".
ParseMembers(s, p, acc) ==
    LET q == SkipWhitespace(s, p) IN
    IF q > Len(s) \/ CharAt(s, q) # "\"" THEN SyntaxError
    ELSE LET k == ScanString(s, q + 1, "") IN
         IF ~k.ok THEN SyntaxError
         ELSE LET c == SkipWhitespace(s, k.pos) IN
              IF c > Len(s) \/ CharAt(s, c) # ":" THEN SyntaxError
              ELSE LET r == ParseValue(s, c + 1) IN
                   IF ~r.ok THEN SyntaxError
                   ELSE LET e == SkipWhitespace(s, r.pos)
                            entries == SetProperty(acc, k.val.val, r.val)
                        IN  IF e > Len(s) THEN SyntaxError
                            ELSE IF CharAt(s, e) = "," THEN ParseMembers(s, e + 1, entries)
                            ELSE IF CharAt(s, e) = "}" THEN Parsed(Obj(entries), e + 1)
                            ELSE SyntaxError

ParseValue(s, p) ==
    LET q == SkipWhitespace(s, p) IN
    IF q > Len(s) THEN SyntaxError
    ELSE LET c == CharAt(s, q) IN
         IF c = "\"" THEN ScanString(s, q + 1, "")
         ELSE IF c = "{" THEN
            LET e == SkipWhitespace(s, q + 1) IN
            IF e <= Len(s) /\ CharAt(s, e) = "}" THEN Parsed(Obj(<<>>), e + 1)
            ELSE ParseMembers(s, q + 1, <<>>)
         ELSE IF c = "[" THEN
            LET e == SkipWhitespace(s, q + 1) IN
            IF e <= Len(s) /\ CharAt(s, e) = "]" THEN Parsed(Arr(<<>>), e + 1)
            ELSE ParseElements(s, q + 1, <<>>)
         ELSE IF c = "t" THEN ParseLiteral(s, q, "true", Bool(TRUE))
         ELSE IF c = "f" THEN ParseLiteral(s, q, "false", Bool(FALSE))
         ELSE IF c = "n" THEN ParseLiteral(s, q, "null", Null)
         ELSE IF c = "-" \/ IsDigit(c) THEN ParseNumber(s, q)
         ELSE SyntaxError

\* The value of a JSON text as Ok(value), or Throw(JSError("SyntaxError")).
JSONparse(text) ==
    LET r == ParseValue(text, 1) IN
    IF r.ok /\ SkipWhitespace(text, r.pos) > Len(text) THEN Ok(r.val)
    ELSE Throw(JSError("SyntaxError"))

(***************************************************************************)
(* decodeAppData: JSON.parse with the reviver.                             *)
(***************************************************************************)
IsLineTerminator(c) == c \in {"\n", "\r"}

\* The groups of /^(?<type>\w+):(?<data>.*)$/u on a string: the type is
\* what precedes the first ":" (one or more word characters), the data is
\* the rest, which "." keeps free of line terminators; matched = FALSE
\* when the pattern does not match.
StringDataGroups(value) ==
    LET colon == IndexOf(value, ":") IN
    IF /\ colon > 1
       /\ \A i \in 1..(colon - 1) : IsWordChar(CharAt(value, i))
       /\ \A i \in (colon + 1)..Len(value) : ~IsLineTerminator(CharAt(value, i))
    THEN [matched |-> TRUE, type |-> SubSeq(value, 1, colon - 1),
          data |-> SubSeq(value, colon + 1, Len(value))]
    ELSE [matched |-> FALSE]

\* The reviver: the replacement of one value, or the error thrown.
Reviver(value) ==
    IF value.kind # "string" THEN value
    ELSE LET stringDataGroups == StringDataGroups(value.val) IN
         IF ~stringDataGroups.matched THEN value
         ELSE IF stringDataGroups.type = "dateTime" THEN NewDate(stringDataGroups.data)
         ELSE IF stringDataGroups.type = "binary" THEN
            LET bytes == toByteArray(stringDataGroups.data)
            IN  IF bytes.ok THEN Bin(bytes.val) ELSE bytes
         ELSE value

\* JSON.parse's walk of the parsed value: the elements and property values
\* are revived first, in order, then the value itself; an error thrown by
\* the reviver ends the walk.
RECURSIVE InternalizeJSONProperty(_)
InternalizeJSONProperty(v) ==
    IF v.kind = "array" THEN
        LET walked == [i \in 1..Len(v.val) |-> InternalizeJSONProperty(v.val[i])]
        IN  IF \E i \in 1..Len(walked) : "ok" \in DOMAIN walked[i]
            THEN walked[CHOOSE i \in 1..Len(walked) :
                           /\ "ok" \in DOMAIN walked[i]
                           /\ \A j \in 1..(i - 1) : "ok" \notin DOMAIN walked[j]]
            ELSE Reviver(Arr(walked))
    ELSE IF v.kind = "object" THEN
        LET walked == [i \in 1..Len(v.val) |-> InternalizeJSONProperty(v.val[i][2])]
        IN  IF \E i \in 1..Len(walked) : "ok" \in DOMAIN walked[i]
            THEN walked[CHOOSE i \in 1..Len(walked) :
                           /\ "ok" \in DOMAIN walked[i]
                           /\ \A j \in 1..(i - 1) : "ok" \notin DOMAIN walked[j]]
            ELSE Reviver(Obj([i \in 1..Len(v.val) |-> <<v.val[i][1], walked[i]>>]))
    ELSE Reviver(v)

\* A decodeAppData without the try and catch: the error comes out.
decodeAppDataNoCatch(stringData) ==
    LET parsed == JSONparse(stringData) IN
    IF ~parsed.ok THEN parsed ELSE InternalizeJSONProperty(parsed.val)

\* The decoded application data; undefined when JSON.parse threw.
decodeAppData(stringData) ==
    LET parsed == JSONparse(stringData) IN
    IF ~parsed.ok THEN Undefined
    ELSE LET decodedAppData == InternalizeJSONProperty(parsed.val)
         IN  IF "ok" \in DOMAIN decodedAppData THEN Undefined ELSE decodedAppData

(***************************************************************************)
(* Inputs of the storage model.                                            *)
(***************************************************************************)
\* The longest byte sequence written; one sequence of each length, which
\* covers base64's three padding cases.
MaxBlobLen == 2

Blob(n) == Bin([i \in 1..n |-> (i * 113 + 142) % 256])

Blobs == {Blob(n) : n \in 0..MaxBlobLen}

NewYear2024 == DateOf(<<2024, 1, 1, 0, 0, 0, 0>>)

\* The mapping {a: 1, b: 2024-01-01T00:00:00.000Z}.
FooMapping == Obj(<< <<"a", Num(1)>>, <<"b", NewYear2024>> >>)

\* The values written through the storage.
AppDataValues ==
    {Str("text"), FooMapping, Obj(<< <<"k", Blob(MaxBlobLen)>> >>),
     Arr(<<Num(1), Str("x")>>)} \cup Blobs

\* Relative keys and the path given to the constructor.
PathKeys == {"foo"}

PathArguments == {Undefined, Str("p")}

\* The optional asBinary argument.
BinaryHints == {Undefined, Bool(TRUE), Bool(FALSE)}

\* Content put into the backend from outside the storage instance.
OutsideContents == {Str("{\"a\":"), Str("[1,\"dateTime:x\"]"), Blob(1)}

\* HTTP statuses the remote source answers with besides 200 and 404.
OtherStatuses == {203, 500}

(***************************************************************************)
(* The storage instance and its backend.                                   *)
(***************************************************************************)
VARIABLES
    provider,       \* the class of the instance: File, NodeJS, Browser, Remote
    pathArgument,   \* the path the constructor was called with
    supportsBinary, \* #supportsBinary
    path,           \* #path
    isNoOp,         \* FileAppDataStorage.#isNoOp
    files,          \* the file system: file name -> content, undefined if none
    dirs,           \* the file system: the directories that exist
    localStorage,   \* the browser's localStorage: key -> string, null if none
    server,         \* the remote source: URL -> content, undefined if none
    pending,        \* the FileAppDataStorage write between mkdir and writeFile
    last,           \* the last event: the call of read, write or delete that
                    \* returned last, or a change from outside after it
    codec,          \* a use of the codec on its own: input, text and result
    memoryTransport,\* a MemoryTransport attached to a logger, and its last event
    i18n,           \* an i18next instance and the i18nInit calls made for it
    pendingI18n,    \* the pending-bundle i18n module and its i18next
    url             \* a use of the URL functions on their own: input and result

vars == <<provider, pathArgument, supportsBinary, path, isNoOp, files, dirs,
          localStorage, server, pending, last, codec,
          memoryTransport, i18n, pendingI18n, url>>

instance == <<provider, pathArgument, supportsBinary, path, isNoOp>>

\* What belongs to the logger, the internationalization and the URL functions;
\* the storage and the codec never touch it.
others == <<memoryTransport, i18n, pendingI18n, url>>

NoTransport == [pc |-> "none"]

NoI18n == [pc |-> "none"]

NoPendingI18n == [pc |-> "none"]

NoURL == [pc |-> "none"]

Providers == {"File", "NodeJS", "Browser", "Remote"}

HTTP_OK == 200

HTTP_NOT_FOUND == 404

BINARY_EXTENSION == ".bin"

JSON_EXTENSION == ".json"

\* A constructor that keeps the path as given.
ConstructPathNoSeparator(pathParameter) ==
    IF pathParameter # Undefined THEN pathParameter.val ELSE ""

\* The constructor of ReadOnlyAppDataStorage: the path field.
ConstructPath(pathParameter) ==
    IF pathParameter # Undefined THEN pathParameter.val \o "/" ELSE ""

\* Every key a storage of the model can compute.
StoreKeys ==
    {ConstructPath(a) \o k \o e :
        a \in PathArguments, k \in PathKeys, e \in {"", BINARY_EXTENSION, JSON_EXTENSION}}

\* A fullKey that adds the extension whatever the storage supports.
fullKeyAlwaysExtension(pathKey, isBinary) ==
    path \o pathKey \o (IF isBinary THEN BINARY_EXTENSION ELSE JSON_EXTENSION)

\* A fullKey with one extension for both kinds of entry.
fullKeyJsonOnly(pathKey, isBinary) ==
    path \o pathKey \o (IF supportsBinary THEN JSON_EXTENSION ELSE "")

fullKey(pathKey, isBinary) ==
    LET keyNoExtension == path \o pathKey IN
    IF supportsBinary
    THEN keyNoExtension \o (IF isBinary THEN BINARY_EXTENSION ELSE JSON_EXTENSION)
    ELSE keyNoExtension

\* path.dirname of a file name.
Dirname(key) ==
    LET slashes == {i \in 1..Len(key) : CharAt(key, i) = "/"} IN
    IF slashes = {} THEN "."
    ELSE SubSeq(key, 1, (CHOOSE i \in slashes : \A j \in slashes : j <= i) - 1)

\* One invocation of a raw primitive (doRead, doWrite, doDelete): the key it
\* was given, the operations it issued on the backend, each with its
\* target, and what it returned or threw.
Invocation(name, key, backend, returned) ==
    [name |-> name, key |-> key, backend |-> backend, returned |-> returned]

\* A returned call: its operation and arguments (arg is asBinary, or the
\* application data of a write), the full key and the data that went to or
\* came from the raw primitive, what the backend answered (the file
\* system's error code, "" for none, or the HTTP status), the result or
\* the error thrown, and the invocations of the raw primitive it made.
Call(op, pathKey, arg, key, data, io, result, prims) ==
    [op |-> op, pathKey |-> pathKey, arg |-> arg, key |-> key, data |-> data,
     io |-> io, result |-> result, prims |-> prims]

NoCall == Call("none", "", Undefined, "", Undefined, Str(""), Ok(Undefined), <<>>)

\* A FileAppDataStorage write whose mkdir is done and whose writeFile is not.
PendingWrite(pathKey, appData, key, data) ==
    [kind |-> "write", pathKey |-> pathKey, arg |-> appData, key |-> key, data |-> data]

\* No use of the codec on its own.
CodecIdle == [pc |-> "idle"]

Init ==
    /\ provider \in Providers
    /\ supportsBinary = (provider # "Browser")
    /\ pathArgument \in PathArguments
    /\ provider = "Remote" => pathArgument # Undefined
    /\ path = ConstructPath(pathArgument)
    /\ isNoOp \in (IF provider = "File" THEN BOOLEAN ELSE {FALSE})
    /\ files = [k \in StoreKeys |-> Undefined]
    /\ dirs = {"."}
    /\ localStorage = [k \in StoreKeys |-> Null]
    /\ server = [k \in StoreKeys |-> Undefined]
    /\ pending = Undefined
    /\ last = NoCall
    /\ codec = CodecIdle
    /\ memoryTransport = NoTransport
    /\ i18n = NoI18n
    /\ pendingI18n = NoPendingI18n
    /\ url = NoURL

(***************************************************************************)
(* The raw primitives.                                                     *)
(***************************************************************************)
\* A file or a response body holds bytes.  Content written as text is kept
\* as the text (it stands for the text's UTF-8 bytes), content written as
\* bytes as the bytes; these two convert between the forms.  The texts of
\* the model are ASCII and no byte sequence holds a multi-byte character,
\* so every byte from 128 on decodes to U+FFFD.
\* The characters 32 to 95 and 97 to 126 (the module's own syntax cannot
\* write character 96, which no text of the model holds).
AsciiLow == " !\"#$%&'()*+,-./0123456789:;<=>?@ABCDEFGHIJKLMNOPQRSTUVWXYZ[\\]^_"

AsciiHigh == "abcdefghijklmnopqrstuvwxyz{|}~"

\* U+FFFD, written as a character that no text of the model holds.
ReplacementCharacter == "\f"

CharCode(c) ==
    IF c = "\n" THEN 10 ELSE IF c = "\t" THEN 9 ELSE IF c = "\r" THEN 13
    ELSE IF IndexOf(AsciiLow, c) > 0 THEN IndexOf(AsciiLow, c) + 31
    ELSE IndexOf(AsciiHigh, c) + 96

CodeChar(b) ==
    IF b \in 32..95 THEN CharAt(AsciiLow, b - 31)
    ELSE IF b \in 97..126 THEN CharAt(AsciiHigh, b - 96)
    ELSE IF b = 10 THEN "\n" ELSE IF b = 9 THEN "\t" ELSE IF b = 13 THEN "\r"
    ELSE ReplacementCharacter

RECURSIVE Utf8Decode(_)
Utf8Decode(bytes) ==
    IF Len(bytes) = 0 THEN "" ELSE CodeChar(bytes[1]) \o Utf8Decode(Tail(bytes))

\* The content as a Uint8Array (a Buffer is one) and as a string.
ContentBytes(content) ==
    IF content.kind = "binary" THEN content
    ELSE Bin([i \in 1..Len(content.val) |-> CharCode(CharAt(content.val, i))])

ContentText(content) ==
    IF content.kind = "string" THEN content ELSE Str(Utf8Decode(content.val))

\* A doRead that answers from the instance's own write in flight.
FileDoReadPending(key, asBinary, ioError) ==
    IF isNoOp THEN Ok(Undefined)
    ELSE IF pending # Undefined /\ pending.key = key THEN Ok(pending.data)
    ELSE IF files[key] = Undefined \/ ioError THEN Ok(Undefined)
    ELSE IF asBinary = Bool(TRUE) THEN Ok(ContentBytes(files[key]))
    ELSE Ok(ContentText(files[key]))

\* FileAppDataStorage.doRead and NodeJSAppDataStorage.doRead: readFile
\* fails when the file does not exist or, with ioError, for another reason.
FileDoRead(key, asBinary, ioError) ==
    IF isNoOp THEN Ok(Undefined)
    ELSE IF files[key] = Undefined \/ ioError THEN Ok(Undefined)
    ELSE IF asBinary = Bool(TRUE) THEN Ok(ContentBytes(files[key]))
    ELSE Ok(ContentText(files[key]))

\* A doRead that returns getItem's null as it is.
BrowserDoReadNull(key) == Ok(localStorage[key])

\* BrowserAppDataStorage.doRead.
BrowserDoRead(key) ==
    Ok(IF localStorage[key] = Null THEN Undefined ELSE localStorage[key])

\* The response of the HTTP fetch of a URL with the given status: ok is set
\* for a status from 200 to 299.
HTTPResponse(key, status) ==
    [ok |-> status \in 200..299, status |-> status,
     body |-> IF status \in 200..299 /\ server[key] # Undefined THEN server[key]
              ELSE Str("")]

\* The statuses the source can answer a GET of the URL with.
ResponseStatuses(key) ==
    (IF server[key] # Undefined THEN {HTTP_OK} ELSE {HTTP_NOT_FOUND}) \cup OtherStatuses

\* The answer of httpFetch(key): the response, or the rejection of the
\* fetch when the transport failed.
HTTPFetch(key, io) ==
    IF io.kind = "number" THEN Ok(HTTPResponse(key, io.val))
    ELSE Throw([name |-> "TypeError", message |-> io.val, status |-> 0])

HTTPError(status) ==
    [name |-> "RangeError", message |-> "RemoteAppDataStorage.httpError", status |-> status]

\* A doRead that takes only status 200 for a hit.
RemoteDoReadOnly200(response, asBinary) ==
    IF response.status = HTTP_OK THEN
        Ok(IF asBinary = Bool(TRUE) THEN ContentBytes(response.body)
           ELSE ContentText(response.body))
    ELSE IF response.status = HTTP_NOT_FOUND THEN Ok(Undefined)
    ELSE Throw(HTTPError(response.status))

\* RemoteAppDataStorage.doRead on the response of the fetch.
RemoteDoRead(response, asBinary) ==
    IF response.ok THEN
        Ok(IF asBinary = Bool(TRUE) THEN ContentBytes(response.body)
           ELSE ContentText(response.body))
    ELSE IF response.status = HTTP_NOT_FOUND THEN Ok(Undefined)
    ELSE Throw(HTTPError(response.status))

\* What the backend can answer the raw read of a key with: for a file that
\* does not exist ENOENT, for one that does no error or a permission
\* error; for the remote source, an HTTP status or no response at all.
ReadAnswers(key) ==
    IF provider = "Remote"
    THEN {Num(st) : st \in ResponseStatuses(key)} \cup {Str("fetch failed")}
    ELSE IF provider = "Browser" \/ isNoOp THEN {Str("")}
    ELSE IF files[key] = Undefined THEN {Str("ENOENT")}
    ELSE {Str(""), Str("EACCES")}

doRead(key, asBinary, io) ==
    IF provider = "Remote" THEN
        LET response == HTTPFetch(key, io)
        IN  IF response.ok THEN RemoteDoRead(response.val, asBinary) ELSE response
    ELSE IF provider = "Browser" THEN BrowserDoRead(key)
    ELSE FileDoRead(key, asBinary, io # Str(""))

\* The operations doRead issues on the backend.
ReadBackend(key) ==
    IF provider = "Remote" THEN << <<"fetch", key>> >>
    ELSE IF provider = "Browser" THEN << <<"getItem", key>> >>
    ELSE IF isNoOp THEN <<>>
    ELSE << <<"readFile", key>> >>

(***************************************************************************)
(* ReadOnlyAppDataStorage.read.                                            *)
(***************************************************************************)
\* A read that decodes whatever doRead returned, bytes as their text.
ReadResultDecodeAll(raw) ==
    IF ~raw.ok \/ raw.val = Undefined THEN raw
    ELSE Ok(decodeAppData(ContentText(raw.val).val))

\* A read that takes an error of doRead for nothing stored.
ReadResultErrorsAbsent(raw) ==
    IF ~raw.ok THEN Ok(Undefined)
    ELSE IF raw.val.kind = "string" THEN Ok(decodeAppData(raw.val.val))
    ELSE raw

\* The application data of what doRead returned.
ReadResult(raw) ==
    IF ~raw.ok THEN raw
    ELSE IF raw.val.kind = "string" THEN Ok(decodeAppData(raw.val.val))
    ELSE raw

\* A read that asks the backend a second time when it found nothing.
ReadRetry(pathKey, asBinary) ==
    LET key == fullKey(pathKey, asBinary = Bool(TRUE)) IN
    \E io \in ReadAnswers(key) :
        LET raw == doRead(key, asBinary, io)
            once == <<Invocation("doRead", key, ReadBackend(key), raw)>>
        IN
        /\ last' = Call("read", pathKey, asBinary, key,
                        IF raw.ok THEN raw.val ELSE Undefined, io, ReadResult(raw),
                        IF raw = Ok(Undefined) THEN once \o once ELSE once)
        /\ UNCHANGED <<others, instance, files, dirs, localStorage, server, pending, codec>>

Read(pathKey, asBinary) ==
    LET key == fullKey(pathKey, asBinary = Bool(TRUE)) IN
    \E io \in ReadAnswers(key) :
        LET raw == doRead(key, asBinary, io) IN
        /\ last' = Call("read", pathKey, asBinary, key,
                        IF raw.ok THEN raw.val ELSE Undefined, io, ReadResult(raw),
                        <<Invocation("doRead", key, ReadBackend(key), raw)>>)
        /\ UNCHANGED <<others, instance, files, dirs, localStorage, server, pending, codec>>

(***************************************************************************)
(* AppDataStorage.write.                                                   *)
(***************************************************************************)
\* A write that encodes every value, a top-level byte sequence too.
WriteDataAlwaysText(appData) ==
    LET text == encodeAppData(appData)
    IN  IF text.ok THEN Ok(Str(text.val)) ELSE text

\* A write that hands over a byte sequence whatever the storage supports.
WriteDataBytesAsGiven(appData) ==
    IF appData.kind = "binary" THEN Ok(appData)
    ELSE LET text == encodeAppData(appData)
         IN  IF text.ok THEN Ok(Str(text.val)) ELSE text

\* The data handed to doWrite, or the error encodeAppData threw.
WriteData(appData) ==
    IF supportsBinary /\ appData.kind = "binary" THEN Ok(appData)
    ELSE LET text == encodeAppData(appData)
         IN  IF text.ok THEN Ok(Str(text.val)) ELSE text

IOError(code) == [name |-> "Error", message |-> code, status |-> 0]

\* What doWrite returns: nothing, or the error of the failed step.
WriteReturned(io) == IF io = Str("") THEN Ok(Undefined) ELSE Throw(IOError(io.val))

\* The operations a synchronous doWrite issues on the backend, to the one
\* that fails.
WriteBackend(key, io) ==
    IF provider = "Browser" THEN << <<"setItem", key>> >>
    ELSE IF provider = "NodeJS" THEN
        << <<"existsSync", Dirname(key)>> >>
            \o (IF Dirname(key) \in dirs THEN <<>> ELSE << <<"mkdirSync", Dirname(key)>> >>)
            \o (IF io = Str("EACCES:mkdir") THEN <<>> ELSE << <<"writeFileSync", key>> >>)
    ELSE <<>>

\* write on a storage whose doWrite is synchronous: BrowserAppDataStorage
\* (setItem) and NodeJSAppDataStorage (mkdirSync if the directory does not
\* exist, then writeFileSync; either may fail), and on a no-op
\* FileAppDataStorage.
Write(pathKey, appData) ==
    LET key == fullKey(pathKey, appData.kind = "binary")
        data == WriteData(appData)
        directory == Dirname(key)
    IN
    /\ provider \in {"Browser", "NodeJS"} \/ (provider = "File" /\ isNoOp)
    /\ \E io \in {Str(""), Str("EACCES:mkdir"), Str("EACCES:writeFile")} :
        /\ io # Str("") => data.ok /\ provider = "NodeJS"
        /\ io = Str("EACCES:mkdir") => directory \notin dirs
        /\ last' = Call("write", pathKey, appData, key,
                        IF data.ok THEN data.val ELSE Undefined, io,
                        IF ~data.ok THEN data ELSE WriteReturned(io),
                        IF ~data.ok THEN <<>>
                        ELSE <<Invocation("doWrite", key, WriteBackend(key, io),
                                          WriteReturned(io))>>)
        /\ localStorage' = IF provider = "Browser" /\ data.ok
                           THEN [localStorage EXCEPT ![key] = data.val]
                           ELSE localStorage
        /\ dirs' = IF provider = "NodeJS" /\ data.ok /\ io # Str("EACCES:mkdir")
                   THEN dirs \cup {directory} ELSE dirs
        /\ files' = IF provider = "NodeJS" /\ data.ok /\ io = Str("")
                    THEN [files EXCEPT ![key] = data.val]
                    ELSE files
    /\ UNCHANGED <<others, instance, server, pending, codec>>

\* A doWrite that does not look at #isNoOp.
WriteMkdirAnyway(pathKey, appData) ==
    LET key == fullKey(pathKey, appData.kind = "binary")
        data == WriteData(appData)
    IN
    /\ provider = "File"
    /\ pending = Undefined
    /\ data.ok
    /\ dirs' = dirs \cup {Dirname(key)}
    /\ pending' = PendingWrite(pathKey, appData, key, data.val)
    /\ last' = last
    /\ UNCHANGED <<others, instance, files, localStorage, server, codec>>

\* write on a FileAppDataStorage, to the end of mkdir: the call fails when
\* encodeAppData or mkdir fails, else it goes on to writeFile.
WriteMkdir(pathKey, appData) ==
    LET key == fullKey(pathKey, appData.kind = "binary")
        data == WriteData(appData)
    IN
    /\ provider = "File" /\ ~isNoOp
    /\ pending = Undefined
    /\ \E io \in {Str(""), Str("EACCES:mkdir")} :
        /\ io # Str("") => data.ok /\ Dirname(key) \notin dirs
        /\ IF data.ok /\ io = Str("")
           THEN /\ dirs' = dirs \cup {Dirname(key)}
                /\ pending' = PendingWrite(pathKey, appData, key, data.val)
                /\ last' = last
           ELSE /\ last' = Call("write", pathKey, appData, key,
                                IF data.ok THEN data.val ELSE Undefined, io,
                                IF ~data.ok THEN data ELSE WriteReturned(io),
                                IF ~data.ok THEN <<>>
                                ELSE <<Invocation("doWrite", key,
                                                  << <<"mkdir", Dirname(key)>> >>,
                                                  WriteReturned(io))>>)
                /\ UNCHANGED <<dirs, pending>>
    /\ UNCHANGED <<others, instance, files, localStorage, server, codec>>

\* A writeFile step whose failure is not reported.
WriteFileFailureUnreported ==
    /\ pending # Undefined
    /\ \E io \in {Str(""), Str("EACCES:writeFile")} :
        /\ files' = IF io = Str("") THEN [files EXCEPT ![pending.key] = pending.data]
                    ELSE files
        /\ last' = Call("write", pending.pathKey, pending.arg, pending.key,
                        pending.data, io, Ok(Undefined),
                        <<Invocation("doWrite", pending.key,
                                     << <<"mkdir", Dirname(pending.key)>>,
                                        <<"writeFile", pending.key>> >>,
                                     Ok(Undefined))>>)
    /\ pending' = Undefined
    /\ UNCHANGED <<others, instance, dirs, localStorage, server, codec>>

\* The writeFile of the pending write, and the return of the call.
WriteFile ==
    /\ pending # Undefined
    /\ \E io \in {Str(""), Str("EACCES:writeFile")} :
        /\ files' = IF io = Str("") THEN [files EXCEPT ![pending.key] = pending.data]
                    ELSE files
        /\ last' = Call("write", pending.pathKey, pending.arg, pending.key,
                        pending.data, io, WriteReturned(io),
                        <<Invocation("doWrite", pending.key,
                                     << <<"mkdir", Dirname(pending.key)>>,
                                        <<"writeFile", pending.key>> >>,
                                     WriteReturned(io))>>)
    /\ pending' = Undefined
    /\ UNCHANGED <<others, instance, dirs, localStorage, server, codec>>

(***************************************************************************)
(* AppDataStorage.delete.                                                  *)
(***************************************************************************)
\* The answers of an rm without force: ENOENT for a file that is not there.
DeleteAnswersNoForce(key) ==
    IF provider \in {"File", "NodeJS"} /\ ~isNoOp
    THEN (IF files[key] = Undefined THEN {Str("ENOENT")} ELSE {Str(""), Str("EPERM")})
    ELSE {Str("")}

\* What the backend can answer the raw delete of a key with: rm with force
\* ignores that the file does not exist, and may fail for one that does;
\* removeItem does not fail.
DeleteAnswers(key) ==
    IF provider \in {"File", "NodeJS"} /\ ~isNoOp /\ files[key] # Undefined
    THEN {Str(""), Str("EPERM")}
    ELSE {Str("")}

\* The operations doDelete issues on the backend.
DeleteBackend(key) ==
    IF provider = "Browser" THEN << <<"removeItem", key>> >>
    ELSE IF isNoOp THEN <<>>
    ELSE << <<"rm", key>> >>

\* A delete that the remote storage has too, asking the source to remove
\* the resource.
DeleteAlsoRemote(pathKey, asBinary) ==
    LET key == fullKey(pathKey, asBinary = Bool(TRUE)) IN
    /\ \E io \in DeleteAnswers(key) :
        /\ last' = Call("delete", pathKey, asBinary, key, Undefined, io,
                        WriteReturned(io),
                        <<Invocation("doDelete", key, DeleteBackend(key),
                                     WriteReturned(io))>>)
        /\ files' = IF provider \in {"File", "NodeJS"} /\ ~isNoOp /\ io = Str("")
                    THEN [files EXCEPT ![key] = Undefined] ELSE files
        /\ localStorage' = IF provider = "Browser"
                           THEN [localStorage EXCEPT ![key] = Null] ELSE localStorage
        /\ server' = IF provider = "Remote"
                     THEN [server EXCEPT ![key] = Undefined] ELSE server
    /\ UNCHANGED <<others, instance, dirs, pending, codec>>

Delete(pathKey, asBinary) ==
    LET key == fullKey(pathKey, asBinary = Bool(TRUE)) IN
    /\ provider # "Remote"
    /\ \E io \in DeleteAnswers(key) :
        /\ last' = Call("delete", pathKey, asBinary, key, Undefined, io,
                        WriteReturned(io),
                        <<Invocation("doDelete", key, DeleteBackend(key),
                                     WriteReturned(io))>>)
        /\ files' = IF provider \in {"File", "NodeJS"} /\ ~isNoOp /\ io = Str("")
                    THEN [files EXCEPT ![key] = Undefined] ELSE files
        /\ localStorage' = IF provider = "Browser"
                           THEN [localStorage EXCEPT ![key] = Null] ELSE localStorage
    /\ UNCHANGED <<others, instance, dirs, server, pending, codec>>

(***************************************************************************)
(* The backend changed from outside the instance: another process writes   *)
(* or removes a file, another page sets or removes an item, the remote     *)
(* source publishes or withdraws a resource.  Where the file system module *)
(* is a polyfill there is no file system to change.                        *)
(***************************************************************************)
InstanceKeys == {fullKey(k, b) : k \in PathKeys, b \in BOOLEAN}

Outside(key, content) ==
    /\ key \in InstanceKeys
    /\ ~isNoOp
    /\ IF provider = "Browser"
       THEN /\ content.kind \in {"string", "undefined"}
            /\ localStorage' = [localStorage EXCEPT
                                   ![key] = IF content = Undefined THEN Null ELSE content]
            /\ UNCHANGED <<files, dirs, server>>
       ELSE IF provider = "Remote"
       THEN /\ server' = [server EXCEPT ![key] = content]
            /\ UNCHANGED <<files, dirs, localStorage>>
       ELSE /\ files' = [files EXCEPT ![key] = content]
            /\ dirs' = IF content = Undefined THEN dirs ELSE dirs \cup {Dirname(key)}
            /\ UNCHANGED <<localStorage, server>>
    /\ last' = Call("outside", "", Undefined, key, content, Str(""), Ok(Undefined), <<>>)
    /\ UNCHANGED <<others, instance, pending, codec>>

\* The storage steps leave the codec's own use alone (the UNCHANGED of each).
Next ==
    \/ \E k \in PathKeys, b \in BinaryHints : Read(k, b)
    \/ \E k \in PathKeys, v \in AppDataValues : Write(k, v)
    \/ \E k \in PathKeys, v \in AppDataValues : WriteMkdir(k, v)
    \/ WriteFile
    \/ \E k \in PathKeys, b \in BinaryHints : Delete(k, b)
    \/ \E k \in StoreKeys, c \in OutsideContents \cup {Undefined} : Outside(k, c)

Spec == Init /\ [][Next]_vars

(***************************************************************************)
(* The codec on its own: encodeAppData of a value and decodeAppData of the *)
(* text, or decodeAppData of a given text.                                 *)
(***************************************************************************)
\* The nesting depth of the values encoded.
MaxDepth == 2

CodecStrings ==
    {"", "text", "a:b", "x\"y\\z", "two\nlines", "dateTime:2024-01-01T00:00:00.000Z",
     "dateTime:x", "binary:AQI=", "binary:abc", "other:AQI="}

CodecLeaves ==
    {Str(t) : t \in CodecStrings}
        \cup {Num(0), Num(-7), Num(1024), Bool(TRUE), Bool(FALSE), NewYear2024,
              DateOf(<<1999, 12, 31, 23, 59, 59, 999>>), InvalidDate,
              Arr(<<>>), Obj(<<>>)}
        \cup Blobs

\* Sequences and mappings that hold the values of S.
Containers(S) ==
    {Arr(<<x>>) : x \in S} \cup {Arr(<<Num(1), x>>) : x \in S}
        \cup {Obj(<< <<"k", x>> >>) : x \in S}
        \cup {Obj(<< <<"a", Num(1)>>, <<"b", x>> >>) : x \in S}

\* The values nested to depth d; from depth 2 on only the containers of
\* one element are nested again.
RECURSIVE ValuesOfDepth(_)
ValuesOfDepth(d) ==
    IF d = 0 THEN CodecLeaves
    ELSE IF d = 1 THEN CodecLeaves \cup Containers(CodecLeaves)
    ELSE ValuesOfDepth(d - 1)
            \cup {Arr(<<x>>) : x \in ValuesOfDepth(d - 1) \ ValuesOfDepth(d - 2)}
            \cup {Obj(<< <<"k", x>> >>) : x \in ValuesOfDepth(d - 1) \ ValuesOfDepth(d - 2)}

CodecValues == ValuesOfDepth(MaxDepth)

\* Texts given to decodeAppData that encodeAppData did not write.
CodecTexts ==
    {"", "{", "{\"a\":", "[1,]", "nul", "01", "{\"a\":1}x", "[1,2]",
     " {\"a\" : [true, null, \"dateTime:2024-01-01T00:00:00.000Z\"]} ",
     "\"binary:abc\"", "[\"binary:AQI\", 1]", "\"dateTime:x\"", "\"other:x\"",
     "{\"k\":\"binary:AQI=\",\"k\":2}", "[\"dateTime:2024\\n\", \"binary:AQ==\\r\"]",
     "{\"a\":\"binary:====\"}", "[\"x:dateTime:y\", \"binary\", \":binary:\", \"a b:c\"]"}

Codec(pc, appData, stringData, decoded) ==
    [pc |-> pc, appData |-> appData, stringData |-> stringData, decoded |-> decoded]

\* The storage of the codec's own specification: none is used.
NoStorage ==
    /\ provider = "None"
    /\ pathArgument = Undefined
    /\ supportsBinary = FALSE
    /\ path = ""
    /\ isNoOp = FALSE
    /\ files = [k \in StoreKeys |-> Undefined]
    /\ dirs = {"."}
    /\ localStorage = [k \in StoreKeys |-> Null]
    /\ server = [k \in StoreKeys |-> Undefined]
    /\ pending = Undefined
    /\ last = NoCall

InitCodec ==
    /\ NoStorage
    /\ memoryTransport = NoTransport
    /\ i18n = NoI18n
    /\ pendingI18n = NoPendingI18n
    /\ url = NoURL
    /\ codec \in {Codec("value", v, Undefined, Undefined) : v \in CodecValues}
            \cup {Codec("text", Undefined, Str(t), Undefined) : t \in CodecTexts}

EncodeAppData ==
    /\ codec.pc = "value"
    /\ LET text == encodeAppData(codec.appData) IN
       codec' = IF text.ok THEN Codec("text", codec.appData, Str(text.val), Undefined)
                ELSE Codec("threw", codec.appData, Undefined, Undefined)
    /\ UNCHANGED <<others, instance, files, dirs, localStorage, server, pending, last>>

DecodeAppData ==
    /\ codec.pc = "text"
    /\ codec' = Codec("decoded", codec.appData, codec.stringData,
                      decodeAppData(codec.stringData.val))
    /\ UNCHANGED <<others, instance, files, dirs, localStorage, server, pending, last>>

NextCodec == EncodeAppData \/ DecodeAppData

SpecCodec == InitCodec /\ [][NextCodec]_vars

(***************************************************************************)
(* MemoryTransport (logger.ts): the messages kept in memory, the two       *)
(* lengths and the notification callbacks, in the order of the Map.        *)
(***************************************************************************)
MaxMaximumLength == 3

\* The number of messages logged in one behaviour.
MaxLogged == 5

NotificationNames == {"a", "b"}

NotificationCallbacks == {"cb1", "cb2"}

MaximumLengths == 0..MaxMaximumLength

TruncateLengths == {Undefined} \cup {Num(n) : n \in 0..MaxMaximumLength}

\* The n-th object the logger hands to its transports.
LogObject(n) == Obj(<< <<"0", Num(n)>> >>)

Min(a, b) == IF a <= b THEN a ELSE b

\* One call of a notification callback: its arguments at the time of the call.
Notification(cb, message, messages) ==
    [cb |-> cb, message |-> message, messages |-> messages]

\* What the last operation on the transport was, what it returned and the
\* callbacks it called, in order.
TransportEvent(op, name, cb, returned, calls) ==
    [op |-> op, name |-> name, cb |-> cb, returned |-> returned, calls |-> calls]

Transport(messages, maximumLength, truncateLength, callbacks, logged, event) ==
    [pc |-> "attached", messages |-> messages, maximumLength |-> maximumLength,
     truncateLength |-> truncateLength, callbacks |-> callbacks,
     logged |-> logged, event |-> event]

\* The two lengths resize sets.
resize(maximumLength, truncateLength) ==
    [maximumLength |-> maximumLength,
     truncateLength |-> IF truncateLength # Undefined
                        THEN Min(truncateLength.val, (maximumLength * 8) \div 10)
                        ELSE maximumLength \div 2]

\* Map.has and Map.get on the sequence of <<name, callback>> entries.
MapHas(map, name) == \E i \in 1..Len(map) : map[i][1] = name

MapGet(map, name) == map[CHOOSE i \in 1..Len(map) : map[i][1] = name][2]

MapDelete(map, name) == SelectSeq(map, LAMBDA entry : entry[1] # name)

\* Array.prototype.splice(0, deleteCount): a negative count deletes nothing.
Splice0(array, deleteCount) ==
    IF deleteCount <= 0 THEN array
    ELSE IF deleteCount >= Len(array) THEN <<>>
    ELSE SubSeq(array, deleteCount + 1, Len(array))

\* new MemoryTransport(logger, maximumLength, truncateLength)
InitLoggerTransport ==
    \E maximumLength \in MaximumLengths, truncateLength \in TruncateLengths :
        LET lengths == resize(maximumLength, truncateLength) IN
        memoryTransport = Transport(<<>>, lengths.maximumLength, lengths.truncateLength,
                                    <<>>, 0, TransportEvent("new", "", "", Undefined, <<>>))

\* The messages after the transport function has taken one more message.
TransportMessages(t, message) ==
    (IF Len(t.messages) >= t.maximumLength
     THEN Splice0(t.messages, t.maximumLength - t.truncateLength)
     ELSE t.messages) \o <<message>>

\* The logger logs: the function given to attachTransport runs.
LogMessage ==
    /\ memoryTransport.pc = "attached"
    /\ memoryTransport.logged < MaxLogged
    /\ LET t == memoryTransport
           message == Str(JSONstringify(LogObject(t.logged + 1)))
           messages == TransportMessages(t, message)
           calls == [i \in 1..Len(t.callbacks) |->
                        Notification(t.callbacks[i][2], message, messages)]
       IN  memoryTransport' = Transport(messages, t.maximumLength, t.truncateLength,
                t.callbacks, t.logged + 1,
                TransportEvent("log", "", "", Undefined, calls))
    /\ UNCHANGED <<instance, files, dirs, localStorage, server, pending, last, codec,
                   i18n, pendingI18n, url>>

AddNotificationCallbackAlways(name, cb) ==
    /\ memoryTransport.pc = "attached"
    /\ LET t == memoryTransport IN
       memoryTransport' = Transport(t.messages, t.maximumLength, t.truncateLength,
            MapDelete(t.callbacks, name) \o << <<name, cb>> >>, t.logged,
            TransportEvent("add", name, cb, Bool(TRUE),
                           <<Notification(cb, Undefined, t.messages)>>))
    /\ UNCHANGED <<instance, files, dirs, localStorage, server, pending, last, codec,
                   i18n, pendingI18n, url>>

AddNotificationCallback(name, cb) ==
    /\ memoryTransport.pc = "attached"
    /\ LET t == memoryTransport
           added == ~MapHas(t.callbacks, name)
       IN  memoryTransport' = Transport(t.messages, t.maximumLength, t.truncateLength,
                IF added THEN t.callbacks \o << <<name, cb>> >> ELSE t.callbacks,
                t.logged,
                TransportEvent("add", name, cb, Bool(added),
                    IF added THEN <<Notification(cb, Undefined, t.messages)>> ELSE <<>>))
    /\ UNCHANGED <<instance, files, dirs, localStorage, server, pending, last, codec,
                   i18n, pendingI18n, url>>

RemoveNotificationCallback(name) ==
    /\ memoryTransport.pc = "attached"
    /\ LET t == memoryTransport IN
       memoryTransport' = Transport(t.messages, t.maximumLength, t.truncateLength,
            MapDelete(t.callbacks, name), t.logged,
            TransportEvent("remove", name, "", Undefined, <<>>))
    /\ UNCHANGED <<instance, files, dirs, localStorage, server, pending, last, codec,
                   i18n, pendingI18n, url>>

Resize(maximumLength, truncateLength) ==
    /\ memoryTransport.pc = "attached"
    /\ LET t == memoryTransport
           lengths == resize(maximumLength, truncateLength)
       IN  memoryTransport' = Transport(t.messages, lengths.maximumLength,
                lengths.truncateLength, t.callbacks, t.logged,
                TransportEvent("resize", "", "", Undefined, <<>>))
    /\ UNCHANGED <<instance, files, dirs, localStorage, server, pending, last, codec,
                   i18n, pendingI18n, url>>

InitLogger ==
    /\ NoStorage
    /\ codec = CodecIdle
    /\ InitLoggerTransport
    /\ i18n = NoI18n
    /\ pendingI18n = NoPendingI18n
    /\ url = NoURL

NextLogger ==
    \/ LogMessage
    \/ \E name \in NotificationNames, cb \in NotificationCallbacks :
            AddNotificationCallback(name, cb)
    \/ \E name \in NotificationNames : RemoveNotificationCallback(name)
    \/ \E maximumLength \in MaximumLengths, truncateLength \in TruncateLengths :
            Resize(maximumLength, truncateLength)

SpecLogger == InitLogger /\ [][NextLogger]_vars

(***************************************************************************)
(* i18nInit with merged resource bundles, in its three revisions: the one  *)
(* of locale/i18n.ts, which awaits each dependency in turn, the one that   *)
(* builds a promise chain, and i18nCoreInit, which is handed the resources *)
(* of its dependencies. A resource bundle is its <<language, namespace>>   *)
(* pairs in the order of Object.entries.                                   *)
(***************************************************************************)
MaxDependencies == 2

I18nRevisions == {"await", "chain", "resources"}

I18nEnvironments == {"CLI", "Server", "Browser"}

I18nCallers == {"first", "second"}

DefaultResourceBundle == << <<"en", "aidct_package">>, <<"fr", "aidct_package">> >>

\* What the dependencies' inits resolve to; the last one holds a namespace of
\* the default resource bundle.
DependencyResourceBundles ==
    { << <<"en", "aidct_core">>, <<"fr", "aidct_core">> >>,
      << <<"en", "aidct_utility">> >>,
      << <<"fr", "aidct_package">> >> }

RECURSIVE SeqsUpTo(_, _)
SeqsUpTo(S, n) ==
    IF n = 0 THEN {<<>>}
    ELSE LET shorter == SeqsUpTo(S, n - 1)
         IN  shorter \cup {Append(s, x) : s \in shorter, x \in S}

DependencyLists == SeqsUpTo(DependencyResourceBundles, MaxDependencies)

SeqRange(s) == {s[i] : i \in 1..Len(s)}

\* mergeResourceBundle of the revisions with dependency inits: a namespace
\* already merged for the language is an error.
mergeResourceBundle(mergedResourceBundle, resourceBundle) ==
    IF SeqRange(resourceBundle) \cap SeqRange(mergedResourceBundle) # {}
    THEN Throw("Duplicate namespace")
    ELSE Ok(mergedResourceBundle \o resourceBundle)

\* The merge of i18nCoreInit: a namespace merged again replaces the earlier.
mergeResource(mergedResource, resource) ==
    mergedResource \o SelectSeq(resource, LAMBDA pair : pair \notin SeqRange(mergedResource))

\* One call of i18nInit: where it is, what it has merged, the dependencies
\* whose bundle it has merged, what it did in order, whether the init it
\* started has finished, and how it ended.
I18nCall(pc, environment, merged, resolved, trace, initFinished, result) ==
    [pc |-> pc, environment |-> environment, merged |-> merged, resolved |-> resolved,
     trace |-> trace, initFinished |-> initFinished, result |-> result]

I18nCallIdle == I18nCall("idle", "", <<>>, {}, <<>>, FALSE, "")

I18n(revision, dependencies, isInitialized, inits, calls) ==
    [pc |-> "instance", revision |-> revision, dependencies |-> dependencies,
     isInitialized |-> isInitialized, inits |-> inits, calls |-> calls]

InitI18nInstance ==
    \E revision \in I18nRevisions, dependencies \in DependencyLists :
        i18n = I18n(revision, dependencies, FALSE, <<>>,
                    [caller \in I18nCallers |-> I18nCallIdle])

I18nEvent(what, index) == [what |-> what, index |-> index]

\* Whether i18next finishes an init before init returns is up to i18next and
\* the language detector: the caller only has the promise.
InitTimings == {"before init returns", "later"}

\* The switch on the environment and the call of i18next.init that follows
\* it, for a call that has merged what it merges before.
UseAndInit(t, caller, call, timing) ==
    IF t.revision # "chain" /\ call.environment = "Server"
    THEN I18n(t.revision, t.dependencies, t.isInitialized, t.inits,
              [t.calls EXCEPT ![caller] =
                  I18nCall("threw", call.environment, call.merged, call.resolved,
                           call.trace, FALSE, "Not supported")])
    ELSE I18n(t.revision, t.dependencies,
              t.isInitialized \/ timing = "before init returns",
              Append(t.inits, [caller |-> caller, resources |-> call.merged,
                                    timing |-> timing]),
              [t.calls EXCEPT ![caller] =
                  I18nCall("awaitInit", call.environment, call.merged, call.resolved,
                           Append(call.trace, I18nEvent("init", 0)),
                           timing = "before init returns", "")])

\* All dependency inits called, in argument order, none awaited.
StartAll(dependencies) == [i \in 1..Len(dependencies) |-> I18nEvent("dependencyInit", i)]

RECURSIVE MergeAll(_, _)
MergeAll(mergedResource, resources) ==
    IF resources = <<>> THEN mergedResource
    ELSE MergeAll(mergeResource(mergedResource, Head(resources)), Tail(resources))

\* The call of i18nInit up to its first await.
I18nInitCall(caller, environment, timing) ==
    /\ i18n.pc = "instance"
    /\ i18n.calls[caller].pc = "idle"
    /\ LET t == i18n
           merged == mergeResourceBundle(<<>>, DefaultResourceBundle).val
           start == I18nCall("idle", environment, merged, {}, <<>>, FALSE, "")
       IN  i18n' =
            IF t.isInitialized
            THEN I18n(t.revision, t.dependencies, t.isInitialized, t.inits,
                      [t.calls EXCEPT ![caller] =
                          I18nCall("returned", environment, <<>>, {}, <<>>, FALSE,
                                   "defaultResourceBundle")])
            ELSE CASE t.revision = "await" ->
                        IF t.dependencies = <<>>
                        THEN UseAndInit(t, caller, start, timing)
                        ELSE I18n(t.revision, t.dependencies, t.isInitialized, t.inits,
                                  [t.calls EXCEPT ![caller] =
                                      I18nCall("awaitDependency", environment, merged, {},
                                               <<I18nEvent("dependencyInit", 1)>>, FALSE, "")])
                   [] t.revision = "chain" ->
                        UseAndInit(t, caller,
                            I18nCall("idle", environment, merged, {},
                                     StartAll(t.dependencies), FALSE, ""), timing)
                   [] t.revision = "resources" ->
                        UseAndInit(t, caller,
                            I18nCall("idle", environment,
                                     MergeAll(<<>>, t.dependencies \o <<DefaultResourceBundle>>),
                                     {}, <<>>, FALSE, ""), timing)
    /\ UNCHANGED <<instance, files, dirs, localStorage, server, pending, last, codec,
                   memoryTransport, pendingI18n, url>>

\* The promise of a dependency's init resolves and its bundle is merged; the
\* awaiting revision then goes on to the next dependency or to the init.
DependencyResolves(caller, index, timing) ==
    /\ i18n.pc = "instance"
    /\ LET t == i18n
           call == t.calls[caller]
           merge == mergeResourceBundle(call.merged, t.dependencies[index])
           trace == Append(call.trace, I18nEvent("merge", index))
           threw == I18n(t.revision, t.dependencies, t.isInitialized, t.inits,
                         [t.calls EXCEPT ![caller] =
                             I18nCall("threw", call.environment, call.merged, call.resolved,
                                      trace, call.initFinished, "Duplicate namespace")])
       IN  /\ index \in 1..Len(t.dependencies)
           /\ index \notin call.resolved
           /\ \/ /\ t.revision = "await"
                 /\ call.pc = "awaitDependency"
                 /\ index = Cardinality(call.resolved) + 1
                 /\ i18n' =
                     IF ~merge.ok THEN threw
                     ELSE IF index < Len(t.dependencies)
                     THEN I18n(t.revision, t.dependencies, t.isInitialized, t.inits,
                               [t.calls EXCEPT ![caller] =
                                   I18nCall("awaitDependency", call.environment, merge.val,
                                            call.resolved \cup {index},
                                            Append(trace, I18nEvent("dependencyInit", index + 1)),
                                            FALSE, "")])
                     ELSE UseAndInit(t, caller,
                               I18nCall("idle", call.environment, merge.val,
                                        call.resolved \cup {index}, trace, FALSE, ""), timing)
              \/ /\ t.revision = "chain"
                 /\ call.pc = "awaitInit"
                 /\ timing = "later"
                 /\ i18n' =
                     IF ~merge.ok THEN threw
                     ELSE I18n(t.revision, t.dependencies, t.isInitialized, t.inits,
                               [t.calls EXCEPT ![caller] =
                                   I18nCall("awaitInit", call.environment, merge.val,
                                            call.resolved \cup {index}, trace,
                                            call.initFinished, "")])
    /\ UNCHANGED <<instance, files, dirs, localStorage, server, pending, last, codec,
                   memoryTransport, pendingI18n, url>>

\* i18next finishes an init it did not finish before init returned.
I18nextInitFinishes(caller) ==
    /\ i18n.pc = "instance"
    /\ i18n.calls[caller].pc \in {"awaitInit", "threw"}
    /\ \E i \in 1..Len(i18n.inits) : i18n.inits[i].caller = caller
    /\ ~i18n.calls[caller].initFinished
    /\ i18n' = [i18n EXCEPT !.isInitialized = TRUE,
                            !.calls[caller].initFinished = TRUE]
    /\ UNCHANGED <<instance, files, dirs, localStorage, server, pending, last, codec,
                   memoryTransport, pendingI18n, url>>

\* Everything the call awaits is settled: it returns the default bundle.
I18nInitReturns(caller) ==
    /\ i18n.pc = "instance"
    /\ i18n.calls[caller].pc = "awaitInit"
    /\ i18n.calls[caller].initFinished
    /\ i18n.revision = "chain" =>
            i18n.calls[caller].resolved = 1..Len(i18n.dependencies)
    /\ i18n' = [i18n EXCEPT !.calls[caller].pc = "returned",
                            !.calls[caller].result = "defaultResourceBundle"]
    /\ UNCHANGED <<instance, files, dirs, localStorage, server, pending, last, codec,
                   memoryTransport, pendingI18n, url>>

InitI18n ==
    /\ NoStorage
    /\ codec = CodecIdle
    /\ memoryTransport = NoTransport
    /\ InitI18nInstance
    /\ pendingI18n = NoPendingI18n
    /\ url = NoURL

NextI18n ==
    \/ \E caller \in I18nCallers, environment \in I18nEnvironments, timing \in InitTimings :
            I18nInitCall(caller, environment, timing)
    \/ \E caller \in I18nCallers, index \in 1..MaxDependencies, timing \in InitTimings :
            DependencyResolves(caller, index, timing)
    \/ \E caller \in I18nCallers : I18nextInitFinishes(caller)
    \/ \E caller \in I18nCallers : I18nInitReturns(caller)

SpecI18n == InitI18n /\ [][NextI18n]_vars

(***************************************************************************)
(* The i18n module with pending resource bundles, in its two revisions:    *)
(* the one that gives up pendingResourceBundles before it awaits the init, *)
(* and the one with the i18nInitPending flag, which gives it up after. A   *)
(* resource bundle is the number of the i18nAddResourceBundle call that    *)
(* passed it.                                                              *)
(***************************************************************************)
MaxBundles == 3

PendingRevisions == {"pendingResourceBundles", "i18nInitPending"}

\* One bundle in i18next: how it got there and whether i18next was
\* initialized when addResourceBundle was called.
Added(bundle, how, isInitialized) ==
    [bundle |-> bundle, how |-> how, isInitialized |-> isInitialized]

PendingCall(pc, initResourceBundles, initFinished, result) ==
    [pc |-> pc, initResourceBundles |-> initResourceBundles,
     initFinished |-> initFinished, result |-> result]

PendingI18n(revision, pendingResourceBundles, i18nInitPending, isInitialized, store, passed, calls, order) ==
    [pc |-> "module", revision |-> revision,
     pendingResourceBundles |-> pendingResourceBundles,
     i18nInitPending |-> i18nInitPending, isInitialized |-> isInitialized,
     store |-> store, passed |-> passed, calls |-> calls, order |-> order]

InitPendingModule ==
    \E revision \in PendingRevisions :
        pendingI18n = PendingI18n(revision, Arr(<<>>), TRUE, FALSE, <<>>, 0,
            [caller \in I18nCallers |-> PendingCall("idle", <<>>, FALSE, "")], <<>>)

\* i18nAddResourceBundle(lng, ns, resources)
I18nAddResourceBundle ==
    /\ pendingI18n.pc = "module"
    /\ pendingI18n.passed < MaxBundles
    /\ LET m == pendingI18n
           bundle == m.passed + 1
       IN  pendingI18n' =
            IF m.pendingResourceBundles # Undefined
            THEN [m EXCEPT !.passed = bundle,
                           !.pendingResourceBundles = Arr(Append(@.val, bundle))]
            ELSE [m EXCEPT !.passed = bundle,
                           !.store = Append(@, Added(bundle, "directly", m.isInitialized))]
    /\ UNCHANGED <<instance, files, dirs, localStorage, server, pending, last, codec,
                   memoryTransport, i18n, url>>

\* The call of i18nInit(environment, debug) up to its await.
PendingI18nInit(caller, environment, timing) ==
    /\ pendingI18n.pc = "module"
    /\ pendingI18n.calls[caller].pc = "idle"
    /\ LET m == [pendingI18n EXCEPT !.order = Append(@, caller)]
           isPending == IF m.revision = "i18nInitPending" THEN m.i18nInitPending
                        ELSE m.pendingResourceBundles # Undefined
           flagged == [m EXCEPT !.i18nInitPending =
                            IF m.revision = "i18nInitPending" THEN FALSE ELSE @]
       IN  pendingI18n' =
            IF ~isPending
            THEN [m EXCEPT !.calls[caller] = PendingCall("returned", <<>>, FALSE, "false")]
            ELSE IF environment = "Server"
            THEN [flagged EXCEPT !.calls[caller] =
                        PendingCall("threw", <<>>, FALSE, "Not supported")]
            ELSE [flagged EXCEPT
                    !.calls[caller] =
                        PendingCall("awaitInit",
                            IF m.revision = "i18nInitPending" THEN <<>>
                            ELSE m.pendingResourceBundles.val,
                            timing = "before init returns", ""),
                    !.pendingResourceBundles =
                        IF m.revision = "i18nInitPending" THEN @ ELSE Undefined,
                    !.isInitialized = @ \/ timing = "before init returns"]
    /\ UNCHANGED <<instance, files, dirs, localStorage, server, pending, last, codec,
                   memoryTransport, i18n, url>>

\* i18next finishes an init it did not finish before init returned.
PendingI18nextInitFinishes(caller) ==
    /\ pendingI18n.pc = "module"
    /\ pendingI18n.calls[caller].pc = "awaitInit"
    /\ ~pendingI18n.calls[caller].initFinished
    /\ pendingI18n' = [pendingI18n EXCEPT !.isInitialized = TRUE,
                                          !.calls[caller].initFinished = TRUE]
    /\ UNCHANGED <<instance, files, dirs, localStorage, server, pending, last, codec,
                   memoryTransport, i18n, url>>

\* The bundles the callback of then adds, each through i18nAddResourceBundle
\* with pendingResourceBundles undefined.
AddPending(store, initResourceBundles, isInitialized) ==
    store \o [i \in 1..Len(initResourceBundles) |->
                Added(initResourceBundles[i], "pending", isInitialized)]

\* The promise of init is fulfilled: the callback of then runs and i18nInit
\* returns true.
PendingI18nInitReturns(caller) ==
    /\ pendingI18n.pc = "module"
    /\ pendingI18n.calls[caller].pc = "awaitInit"
    /\ pendingI18n.calls[caller].initFinished
    /\ LET m == pendingI18n
           initResourceBundles ==
                IF m.revision = "i18nInitPending" THEN m.pendingResourceBundles.val
                ELSE m.calls[caller].initResourceBundles
       IN  pendingI18n' = [m EXCEPT
                !.pendingResourceBundles = Undefined,
                !.store = AddPending(@, initResourceBundles, m.isInitialized),
                !.calls[caller] = PendingCall("returned", <<>>, TRUE, "true")]
    /\ UNCHANGED <<instance, files, dirs, localStorage, server, pending, last, codec,
                   memoryTransport, i18n, url>>

InitPendingI18n ==
    /\ NoStorage
    /\ codec = CodecIdle
    /\ memoryTransport = NoTransport
    /\ i18n = NoI18n
    /\ InitPendingModule
    /\ url = NoURL

NextPendingI18n ==
    \/ I18nAddResourceBundle
    \/ \E caller \in I18nCallers, environment \in I18nEnvironments, timing \in InitTimings :
            PendingI18nInit(caller, environment, timing)
    \/ \E caller \in I18nCallers : PendingI18nextInitFinishes(caller)
    \/ \E caller \in I18nCallers : PendingI18nInitReturns(caller)

SpecPendingI18n == InitPendingI18n /\ [][NextPendingI18n]_vars

(***************************************************************************)
(* parseVersion and the URL functions baseURL, phaseURL and websiteURL.    *)
(***************************************************************************)
\* The digits of the date/time of a pre-release: \d{12}.
DateTimeDigits == 12

AIDC_TOOLKIT_BASE_URL == "https://aidc-toolkit.com"

NON_ALPHA_BASE_URL == "https://aidc-toolkit.com"

WEBSITE_BASE_URL == "https://aidc-toolkit.com"

\* The rest of s from position p on.
From(s, p) == IF p > Len(s) THEN "" ELSE SubSeq(s, p, Len(s))

\* What the regular expression of parseVersion takes after the patch version:
\* nothing, or -alpha or -beta with an optional . and date/time.
PreRelease(rest) ==
    LET identifier == IF StartsWith(rest, "-alpha") THEN "alpha"
                      ELSE IF StartsWith(rest, "-beta") THEN "beta" ELSE ""
        after == From(rest, Len(identifier) + 2)
    IN  IF rest = "" THEN Ok([preReleaseIdentifier |-> Undefined, dateTime |-> Undefined])
        ELSE IF identifier = "" THEN Throw("no match")
        ELSE IF after = ""
        THEN Ok([preReleaseIdentifier |-> Str(identifier), dateTime |-> Undefined])
        ELSE IF /\ StartsWith(after, ".")
                /\ Len(after) = DateTimeDigits + 1
                /\ AllDigits(From(after, 2))
        THEN Ok([preReleaseIdentifier |-> Str(identifier),
                 dateTime |-> Str(From(after, 2))])
        ELSE Throw("no match")

parseVersion(version) ==
    LET majorEnd == DigitsEnd(version, 1)
        minorEnd == DigitsEnd(version, majorEnd + 1)
        patchEnd == DigitsEnd(version, minorEnd + 1)
        preRelease == PreRelease(From(version, patchEnd))
    IN  IF /\ majorEnd > 1
           /\ From(version, majorEnd) # "" /\ CharAt(version, majorEnd) = "."
           /\ minorEnd > majorEnd + 1
           /\ From(version, minorEnd) # "" /\ CharAt(version, minorEnd) = "."
           /\ patchEnd > minorEnd + 1
           /\ preRelease.ok
        THEN Ok([majorVersion |-> StrToNat(SubSeq(version, 1, majorEnd - 1)),
                 minorVersion |-> StrToNat(SubSeq(version, majorEnd + 1, minorEnd - 1)),
                 patchVersion |-> StrToNat(SubSeq(version, minorEnd + 1, patchEnd - 1)),
                 preReleaseIdentifier |-> preRelease.val.preReleaseIdentifier,
                 dateTime |-> preRelease.val.dateTime])
        ELSE Throw("Invalid package version " \o version)

\* const relativeURL = nonAlphaRelativeURL !== undefined && ... of the three
\* functions.
relativeURL(nonAlphaRelativeURL) ==
    IF nonAlphaRelativeURL # Undefined /\ nonAlphaRelativeURL.val # ""
    THEN "/" \o nonAlphaRelativeURL.val ELSE ""

\* v${parsedVersion.majorVersion}.${parsedVersion.minorVersion}
VersionPath(parsedVersion) ==
    "/v" \o NatToStr(parsedVersion.majorVersion) \o "." \o NatToStr(parsedVersion.minorVersion)

baseURL(version, alphaBaseURL, nonAlphaRelativeURL) ==
    LET parsedVersion == parseVersion(version)
        preReleaseIdentifier == parsedVersion.val.preReleaseIdentifier
    IN  IF ~parsedVersion.ok THEN parsedVersion
        ELSE IF preReleaseIdentifier = Str("alpha") THEN Ok(alphaBaseURL)
        ELSE IF preReleaseIdentifier # Undefined
        THEN Ok(AIDC_TOOLKIT_BASE_URL \o "/" \o preReleaseIdentifier.val
                \o VersionPath(parsedVersion.val) \o relativeURL(nonAlphaRelativeURL))
        ELSE Ok(AIDC_TOOLKIT_BASE_URL \o relativeURL(nonAlphaRelativeURL))

phaseURL(version, alphaURL, nonAlphaRelativeURL) ==
    LET parsedVersion == parseVersion(version)
        preReleaseIdentifier == parsedVersion.val.preReleaseIdentifier
    IN  IF ~parsedVersion.ok THEN parsedVersion
        ELSE IF preReleaseIdentifier = Str("alpha") THEN Ok(alphaURL)
        ELSE IF preReleaseIdentifier # Undefined
        THEN Ok(NON_ALPHA_BASE_URL \o "/" \o preReleaseIdentifier.val
                \o VersionPath(parsedVersion.val) \o relativeURL(nonAlphaRelativeURL))
        ELSE Ok(NON_ALPHA_BASE_URL \o relativeURL(nonAlphaRelativeURL))

websiteURLNoVersion(version, includeVersionInProduction, alphaURL, nonAlphaRelativeURL) ==
    phaseURL(version, alphaURL, nonAlphaRelativeURL)

websiteURL(version, includeVersionInProduction, alphaURL, nonAlphaRelativeURL) ==
    LET parsedVersion == parseVersion(version)
        preReleaseIdentifier == parsedVersion.val.preReleaseIdentifier
        preReleaseIdentifierPath ==
            IF preReleaseIdentifier # Undefined THEN "/" \o preReleaseIdentifier.val ELSE ""
        versionPath ==
            IF preReleaseIdentifier # Undefined \/ includeVersionInProduction
            THEN VersionPath(parsedVersion.val) ELSE ""
    IN  IF ~parsedVersion.ok THEN parsedVersion
        ELSE IF preReleaseIdentifier = Str("alpha") THEN Ok(alphaURL)
        ELSE Ok(WEBSITE_BASE_URL \o preReleaseIdentifierPath \o versionPath
                \o relativeURL(nonAlphaRelativeURL))

Versions ==
    {"1.2.3", "0.9.12", "10.0.1", "01.2.3", "1.2.3-alpha", "1.2.3-beta",
     "2.10.0-beta.202501011200", "1.2.3-alpha.202501011200",
     "", "1.2", "1..3", ".2.3", "1.2.3.4", "v1.2.3", "1.2.3 ", "1.2.x",
     "1.2.3-rc", "1.2.3-", "1.2.3-alphabet", "1.2.3-ALPHA", "1.2.3alpha",
     "1.2.3-beta.", "1.2.3-beta.2025", "1.2.3-beta.2025010112000",
     "1.2.3-beta.20250101120x", "1.2.3-beta-202501011200", "1.2.3.202501011200"}

AlphaURLs == {"http://localhost:5173", "http://localhost:5173/api"}

NonAlphaRelativeURLs == {Undefined, Str(""), Str("api"), Str("doc/index.html")}

URLFunctions == {"baseURL", "phaseURL", "websiteURL"}

\* One use of a URL function: its arguments and, once called, its result.
URL(pc, function, version, includeVersionInProduction, alphaURL, nonAlphaRelativeURL, result) ==
    [pc |-> pc, function |-> function, version |-> version,
     includeVersionInProduction |-> includeVersionInProduction,
     alphaURL |-> alphaURL, nonAlphaRelativeURL |-> nonAlphaRelativeURL,
     result |-> result]

InitURL ==
    /\ NoStorage
    /\ codec = CodecIdle
    /\ memoryTransport = NoTransport
    /\ i18n = NoI18n
    /\ pendingI18n = NoPendingI18n
    /\ \E function \in URLFunctions, version \in Versions, alphaURL \in AlphaURLs,
          nonAlphaRelativeURL \in NonAlphaRelativeURLs,
          includeVersionInProduction \in BOOLEAN :
            /\ function # "websiteURL" => ~includeVersionInProduction
            /\ url = URL("call", function, version, includeVersionInProduction,
                         alphaURL, nonAlphaRelativeURL, Undefined)

Returned(result) ==
    URL("returned", url.function, url.version, url.includeVersionInProduction,
        url.alphaURL, url.nonAlphaRelativeURL, result)

BaseURL ==
    /\ url.pc = "call"
    /\ url.function = "baseURL"
    /\ url' = Returned(baseURL(url.version, url.alphaURL, url.nonAlphaRelativeURL))
    /\ UNCHANGED <<instance, files, dirs, localStorage, server, pending, last, codec,
                   memoryTransport, i18n, pendingI18n>>

PhaseURL ==
    /\ url.pc = "call"
    /\ url.function = "phaseURL"
    /\ url' = Returned(phaseURL(url.version, url.alphaURL, url.nonAlphaRelativeURL))
    /\ UNCHANGED <<instance, files, dirs, localStorage, server, pending, last, codec,
                   memoryTransport, i18n, pendingI18n>>

WebsiteURL ==
    /\ url.pc = "call"
    /\ url.function = "websiteURL"
    /\ url' = Returned(websiteURL(url.version, url.includeVersionInProduction,
                                  url.alphaURL, url.nonAlphaRelativeURL))
    /\ UNCHANGED <<instance, files, dirs, localStorage, server, pending, last, codec,
                   memoryTransport, i18n, pendingI18n>>

NextURL == BaseURL \/ PhaseURL \/ WebsiteURL

SpecURL == InitURL /\ [][NextURL]_vars

(***************************************************************************)
(* Properties.                                                             *)
(***************************************************************************)
\* Whether no string in the value has the form of a tagged string.
RECURSIVE TagFree(_)
TagFree(v) ==
    IF v.kind = "string" THEN
        LET g == StringDataGroups(v.val)
        IN  ~(g.matched /\ g.type \in {"dateTime", "binary"})
    ELSE IF v.kind = "array" THEN \A i \in 1..Len(v.val) : TagFree(v.val[i])
    ELSE IF v.kind = "object" THEN \A i \in 1..Len(v.val) : TagFree(v.val[i][2])
    ELSE TRUE

EndsWith(s, suffix) ==
    Len(s) >= Len(suffix) /\ SubSeq(s, Len(s) - Len(suffix) + 1, Len(s)) = suffix

FileProviders == {"File", "NodeJS"}

\* C1: decodeAppData(encodeAppData(x)) is structurally equal to x for every
\* AppData value x: sequences come back as sequences of the same length
\* and order, binary byte-exact, date-times instant-exact.  Stated here for
\* the values that hold no string of the tagged form, the ambiguity the
\* format is known to have.
C1_RoundTrip ==
    (codec.pc = "decoded" /\ codec.appData # Undefined /\ TagFree(codec.appData))
        => codec.decoded = codec.appData

\* C2: on the file and the string-store backend, write(k, x) followed by
\* read(k) with the default hint returns a value equal to x, for every x,
\* a top-level binary blob included.  Stated for a write that succeeded on
\* a storage that is no no-op, and a read that met no I/O error.
C2_WriteThenRead ==
    [][(/\ last.op = "write" /\ last.result.ok
        /\ provider \in {"File", "NodeJS", "Browser"} /\ ~isNoOp
        /\ last'.op = "read" /\ last'.pathKey = last.pathKey
        /\ last'.arg = Undefined /\ last'.io = Str(""))
            => last'.result = Ok(last.arg)]_vars

C4_ReadErrorPropagates ==
    (last.op = "read" /\ provider \in FileProviders /\ ~isNoOp) =>
        /\ (last.data = Undefined /\ last.result.ok) => last.io = Str("ENOENT")
        /\ last.io = Str("EACCES") => ~last.result.ok

\* Whether the backend holds nothing at the key the last read used (the
\* remote source: it has no such resource and answered 404).
HeldNothing ==
    CASE provider \in FileProviders -> files[last.key] = Undefined
      [] provider = "Browser" -> localStorage[last.key] = Null
      [] provider = "Remote" ->
            server[last.key] = Undefined /\ last.io = Num(HTTP_NOT_FOUND)
      [] OTHER -> FALSE

\* C5: on every backend, read(k) of a key that was never written, or was
\* written and then deleted, returns Absent and does not fail.  (The last
\* event being the read, the backend is as the read found it.)
C5_AbsentKeyReadsAbsent ==
    (last.op = "read" /\ HeldNothing) => last.result = Ok(Undefined)

\* A read found nothing at a key of a directory that a write had created.
C5_Witness ==
    /\ last.op = "read" /\ provider = "NodeJS" /\ "p" \in dirs
    /\ files[last.key] = Undefined /\ last.result = Ok(Undefined)

\* Whether the backend holds nothing at a key of a writable storage.
KeyAbsent(key) ==
    IF provider = "Browser" THEN localStorage[key] = Null ELSE files[key] = Undefined

\* C6: on every writable backend, delete(k) succeeds without error when k
\* was never written or was already deleted, and a second delete(k) leaves
\* the store as the first left it.
C6_DeleteIdempotent ==
    [][/\ (last'.op = "delete" /\ last' # last /\ KeyAbsent(last'.key)) =>
            (last'.result.ok /\ files' = files /\ localStorage' = localStorage)
       /\ (/\ last.op = "delete" /\ last.result.ok
           /\ last'.op = "delete" /\ last'.key = last.key) =>
            (last'.result.ok /\ files' = files /\ localStorage' = localStorage)]_vars

\* A delete succeeded under a path whose directory no write had created.
C6_Witness ==
    /\ last.op = "delete" /\ last.result.ok
    /\ provider = "NodeJS" /\ path = "p/" /\ "p" \notin dirs

\* C7: if the raw text persisted at a key is not valid JSON, read() of the
\* key returns Absent, as for a missing key, and does not fail.
C7_MalformedReadsAbsent ==
    (last.op = "read" /\ last.data.kind = "string" /\ ~JSONparse(last.data.val).ok)
        => last.result = Ok(Undefined)

\* A read met a text that ends in the middle of an object.
C7_Witness ==
    last.op = "read" /\ last.data = Str("{\"a\":") /\ last.result = Ok(Undefined)

\* The binary hint of a call: asBinary, or for a write whether the value
\* is a byte sequence.
BinaryHint(call) ==
    IF call.op = "write" THEN call.arg.kind = "binary" ELSE call.arg = Bool(TRUE)

ExtensionRule(call) ==
    IF supportsBinary
    THEN IF BinaryHint(call) THEN EndsWith(call.key, ".bin") ELSE EndsWith(call.key, ".json")
    ELSE call.key = path \o call.pathKey

\* C8: the full key used by read, write and delete ends in ".bin" when the
\* capability flag and the binary hint are true, in ".json" when the flag
\* is true and the hint false, and has no extension when the flag is false.
C8_Extension ==
    /\ last.op \in {"read", "write", "delete"} => ExtensionRule(last)
    /\ pending # Undefined =>
            ExtensionRule(Call("write", pending.pathKey, pending.arg, pending.key,
                               pending.data, Str(""), Ok(Undefined), <<>>))

\* The string store was handed a byte sequence to write, under a key
\* without extension.
C8_Witness ==
    /\ last.op = "write" /\ provider = "Browser"
    /\ last.arg.kind = "binary" /\ last.key = "p/foo"

\* C9: the full key of relative key k is the constructor's path, "/" and k
\* (then the extension, if any), and k alone for a storage constructed
\* without a path; the path is the one given at construction throughout.
C9_PrefixedKey ==
    [][/\ pathArgument' = pathArgument
       /\ last'.op \in {"read", "write", "delete"} =>
            \E e \in {"", ".bin", ".json"} :
                last'.key = (IF pathArgument = Undefined THEN last'.pathKey
                             ELSE pathArgument.val \o "/" \o last'.pathKey) \o e]_vars

\* A storage constructed with the path p deleted under the key p/foo.json.
C9_Witness ==
    /\ last.op = "delete" /\ pathArgument = Str("p") /\ last.key = "p/foo.json"

FooText == "{\"a\":1,\"b\":\"dateTime:2024-01-01T00:00:00.000Z\"}"

\* The write of the mapping {a: 1, b: 2024-01-01T00:00:00.000Z} under "foo"
\* returned, on a binary-capable storage without a path.
FooWritten(call) ==
    /\ supportsBinary /\ pathArgument = Undefined
    /\ call.op = "write" /\ call.pathKey = "foo" /\ call.arg = FooMapping
    /\ call.result.ok

FooRead(call) ==
    call.op = "read" /\ call.pathKey = "foo" /\ call.arg = Undefined /\ call.io = Str("")

RECURSIVE TaggedForm(_)
TaggedForm(v) ==
    IF v.kind = "date" THEN Str("dateTime:" \o toISOString(v).val)
    ELSE IF v.kind = "binary" THEN Str("binary:" \o fromByteArray(v.val))
    ELSE IF v.kind = "array" THEN Arr([i \in 1..Len(v.val) |-> TaggedForm(v.val[i])])
    ELSE IF v.kind = "object"
    THEN Obj([i \in 1..Len(v.val) |-> <<v.val[i][1], TaggedForm(v.val[i][2])>>])
    ELSE v

\* C11: encodeAppData walks sequences and mappings recursively: the text
\* is the JSON of the value with a sequence as a JSON array of its encoded
\* elements, a mapping as a JSON object of its encoded values in insertion
\* order, and every date-time and byte sequence as a tagged string.
C11_EncodeWalk ==
    (codec.pc \in {"text", "decoded"} /\ codec.appData # Undefined)
        => codec.stringData = Str(JSONstringify(TaggedForm(codec.appData)))


\* What follows the prefix in a string.
Payload(s, prefix) == SubSeq(s, Len(prefix) + 1, Len(s))

\* Whether d is what the stated rule makes of the parsed value p: a string
\* "dateTime:" + payload became a date-time, a string "binary:" + payload
\* the base64-decoded bytes, every other leaf is unchanged, and sequences
\* and mappings hold the replaced elements and values.
RECURSIVE RevivedAsStated(_, _)
RevivedAsStated(p, d) ==
    IF p.kind = "string" /\ StartsWith(p.val, "dateTime:")
    THEN d = NewDate(Payload(p.val, "dateTime:"))
    ELSE IF p.kind = "string" /\ StartsWith(p.val, "binary:")
    THEN LET bytes == toByteArray(Payload(p.val, "binary:"))
         IN  d.kind = "binary" /\ (bytes.ok => d.val = bytes.val)
    ELSE IF p.kind \in {"array", "object"}
    THEN /\ d.kind = p.kind
         /\ Len(d.val) = Len(p.val)
         /\ \A i \in 1..Len(p.val) :
                IF p.kind = "array" THEN RevivedAsStated(p.val[i], d.val[i])
                ELSE /\ d.val[i][1] = p.val[i][1]
                     /\ RevivedAsStated(p.val[i][2], d.val[i][2])
    ELSE d = p

\* C12 as stated: decodeAppData replaces a string leaf "dateTime:" + payload
\* by a date-time and "binary:" + payload by the base64-decoded bytes, and
\* leaves every other leaf unchanged.
C12_ReviverAsStated ==
    (codec.pc = "decoded" /\ JSONparse(codec.stringData.val).ok)
        => RevivedAsStated(JSONparse(codec.stringData.val).val, codec.decoded)

\* C13: write(k, v) hands the raw-write primitive the byte sequence v
\* itself only when the capability flag is true and v is a top-level byte
\* sequence; in every other case it hands over the text encodeAppData(v).
C13_WriteData ==
    /\ (last.op = "write" /\ last.prims # <<>>) =>
            last.data = IF supportsBinary /\ last.arg.kind = "binary" THEN last.arg
                        ELSE Str(encodeAppData(last.arg).val)
    /\ pending # Undefined =>
            pending.data = IF supportsBinary /\ pending.arg.kind = "binary" THEN pending.arg
                           ELSE Str(encodeAppData(pending.arg).val)

\* A mapping that holds a byte sequence went to a file as text.
C13_Witness ==
    /\ last.op = "write" /\ provider = "File" /\ ~isNoOp /\ last.result.ok
    /\ last.arg = Obj(<< <<"k", Blob(MaxBlobLen)>> >>)
    /\ last.data.kind = "string" /\ files[last.key] = last.data

\* C14: read(k, asBinary) returns decodeAppData(raw) when the raw-read
\* primitive returned text, the byte sequence unchanged when it returned
\* bytes, and Absent when it reported not-found.
C14_ReadResult ==
    (last.op = "read" /\ last.prims[1].returned.ok) =>
        LET raw == last.prims[1].returned.val IN
        /\ raw.kind = "string" => last.result = Ok(decodeAppData(raw.val))
        /\ raw.kind = "binary" => last.result = Ok(raw)
        /\ raw = Undefined => last.result = Ok(Undefined)

\* A remote read with the binary hint returned the bytes of a body that is
\* JSON text when read as text.
C14_Witness ==
    /\ last.op = "read" /\ provider = "Remote" /\ last.arg = Bool(TRUE)
    /\ server[last.key] = Str("[1,\"dateTime:x\"]")
    /\ last.data.kind = "binary" /\ last.result = Ok(last.data)

\* C15: on the string store, an entry written through the storage has the
\* key path + "/" + relative key (the relative key alone without a path),
\* no extension, and as value the text of encodeAppData; a byte sequence
\* is stored as a "binary:"-tagged base64 string, never as bytes.
C15_StringStoreEntry ==
    /\ \A k \in StoreKeys : localStorage[k].kind \in {"null", "string"}
    /\ (provider = "Browser" /\ last.op = "write" /\ last.result.ok) =>
        /\ last.key = (IF pathArgument = Undefined THEN ""
                       ELSE pathArgument.val \o "/") \o last.pathKey
        /\ localStorage[last.key] = Str(encodeAppData(last.arg).val)
        /\ last.arg.kind = "binary" =>
                localStorage[last.key]
                    = Str("\"binary:" \o fromByteArray(last.arg.val) \o "\"")

\* A byte sequence was written to the string store.
C15_Witness ==
    /\ provider = "Browser" /\ last.op = "write" /\ last.result.ok
    /\ last.arg = Blob(MaxBlobLen) /\ last.key = "p/foo"
    /\ StartsWith(localStorage["p/foo"].val, "\"binary:")

\* What the backend holds at a key, as a raw read with the hint takes it.
Held(key, asBinary) ==
    LET content == IF provider = "Browser"
                   THEN (IF localStorage[key] = Null THEN Undefined ELSE localStorage[key])
                   ELSE IF provider = "Remote" THEN server[key]
                   ELSE IF isNoOp THEN Undefined
                   ELSE files[key]
    IN  IF content = Undefined \/ provider = "Browser" THEN content
        ELSE IF asBinary THEN ContentBytes(content) ELSE ContentText(content)

\* C16: a storage instance keeps no copy of earlier results: a read that
\* the backend answers (no failure; for the remote source 200 or 404)
\* returns what the backend holds at the key at the time of the read,
\* whoever put it there and whatever the instance read or wrote before.
C16_ReadsBackend ==
    (/\ last.op = "read"
     /\ last.io \in {Str(""), Str("ENOENT"), Num(HTTP_OK), Num(HTTP_NOT_FOUND)}) =>
        /\ last.data = Held(last.key, last.arg = Bool(TRUE))
        /\ last.result = IF last.data.kind = "string"
                         THEN Ok(decodeAppData(last.data.val)) ELSE Ok(last.data)

\* While the instance's own write of a key was in flight, a read of the
\* key returned the content an outside writer had put there.
C16_Witness ==
    /\ last.op = "read" /\ provider = "File"
    /\ pending # Undefined /\ pending.key = last.key
    /\ last.data = Str("{\"a\":") /\ last.data # pending.data

\* The hint that matches a value: asBinary true for a byte sequence, and
\* false or none for every other value.
MatchingHint(asBinary, appData) == (asBinary = Bool(TRUE)) <=> (appData.kind = "binary")

Backend(call) == call.prims[1].backend

\* C18: a FileAppDataStorage write creates the directory and then writes
\* the file, as two steps: the step that ends directory creation neither
\* writes the file nor returns, the file is written only by a later step
\* that starts with the directory created, other operations can return in
\* between, and if either step fails the call fails with that I/O error.
C18_TwoSteps ==
    [][/\ (pending = Undefined /\ pending' # Undefined) =>
            /\ files' = files /\ last' = last
            /\ provider = "File" /\ ~isNoOp
            /\ Dirname(pending'.key) \in dirs'
       /\ (provider = "File" /\ ~isNoOp /\ files' # files /\ last'.op = "write") =>
            /\ pending # Undefined /\ pending' = Undefined
            /\ Dirname(pending.key) \in dirs
            /\ Backend(last') = << <<"mkdir", Dirname(last'.key)>>,
                                   <<"writeFile", last'.key>> >>
       /\ (pending # Undefined /\ last'.op \in {"read", "delete"} /\ last' # last) =>
            pending' = pending
       /\ (last'.op = "write" /\ last'.io # Str("")) =>
            /\ ~last'.result.ok
            /\ last'.result.err = IOError(last'.io.val)
            /\ files' = files]_vars

\* The directory was created and the file write then failed: the call
\* failed with the error and no file is there.
C18_Witness ==
    /\ provider = "File" /\ last.op = "write" /\ last.io = Str("EACCES:writeFile")
    /\ ~last.result.ok /\ path = "p/" /\ "p" \in dirs
    /\ Len(Backend(last)) = 2 /\ files[last.key] = Undefined

\* The raw primitive of an operation.
Primitive(op) ==
    CASE op = "read" -> "doRead" [] op = "write" -> "doWrite" [] op = "delete" -> "doDelete"

\* C19: each call of read, write or delete invokes the backend's raw
\* primitive exactly once, with the computed full key, also when the call
\* fails or reports not-found; the primitive issues each of its backend
\* operations once, and a remote read exactly one fetch of the full-key URL.
C19_OneInvocation ==
    last.op \in {"read", "write", "delete"} =>
        /\ Len(last.prims) = 1
        /\ last.prims[1].name = Primitive(last.op)
        /\ last.prims[1].key = last.key
        /\ \E e \in {"", ".bin", ".json"} : last.key = path \o last.pathKey \o e
        /\ \A i, j \in 1..Len(Backend(last)) : Backend(last)[i] = Backend(last)[j] => i = j
        /\ provider = "Remote" => Backend(last) = << <<"fetch", last.key>> >>

\* A remote read that the source answered with status 500 failed after one
\* fetch.
C19_Witness ==
    /\ last.op = "read" /\ provider = "Remote" /\ last.io = Num(500)
    /\ ~last.result.ok /\ Backend(last) = << <<"fetch", "p/foo.json">> >>

\* C20: when the raw-read primitive fails with an error, read() fails with
\* that same error, unmodified, and does not turn it into Absent.
C20_ReadErrorUnmodified ==
    (last.op = "read" /\ ~last.prims[1].returned.ok) =>
        /\ last.result = last.prims[1].returned
        /\ last.result # Ok(Undefined)

\* The fetch of a remote read was rejected and the read failed with the
\* rejection.
C20_Witness ==
    /\ last.op = "read" /\ provider = "Remote" /\ last.io = Str("fetch failed")
    /\ ~last.result.ok /\ last.result.err.name = "TypeError"
    /\ last.result.err.message = "fetch failed"

\* C21: the remote storage offers read only: every call on a remote
\* storage instance is a read, it leaves the content of the remote source
\* as it is, and the one request it issues is the fetch of the full-key
\* URL.
C21_RemoteReadOnly ==
    [][(provider = "Remote" /\ last' # last /\ last'.op # "outside") =>
            /\ last'.op = "read"
            /\ server' = server
            /\ Backend(last') = << <<"fetch", path \o last'.pathKey \o
                    (IF last'.arg = Bool(TRUE) THEN ".bin" ELSE ".json")>> >>]_vars

\* A remote read returned the resource the source holds, and the source
\* holds it still.
C21_Witness ==
    /\ provider = "Remote" /\ last.op = "read" /\ last.io = Num(HTTP_OK)
    /\ server[last.key] = Blob(1) /\ last.result.ok /\ last.result.val # Undefined

\* The key of the other entry under the relative key of a call: the JSON
\* entry for a call on the binary entry, and the reverse.
OtherEntry(call) ==
    path \o call.pathKey \o (IF BinaryHint(call) THEN ".json" ELSE ".bin")

\* C23: on a capability-true writable backend the binary entry and the
\* JSON entry under one relative key are independent: a write of a value
\* that is not a byte sequence and a delete without the binary hint leave
\* what read(k, true) returns unchanged, and a write of a byte sequence
\* and delete(k, true) leave what read(k) returns unchanged.  What a read
\* returns is made of the file at its key (C16), so the file is compared.
C23_EntriesIndependent ==
    [][/\ (supportsBinary /\ last' # last /\ last'.op \in {"write", "delete"}) =>
            files'[OtherEntry(last')] = files[OtherEntry(last')]
       /\ (pending = Undefined /\ pending' # Undefined) => files' = files]_vars

\* delete(k, true) returned and the JSON entry the storage wrote under k is
\* still there.
C23_Witness ==
    /\ provider = "File" /\ last.op = "delete" /\ last.arg = Bool(TRUE)
    /\ last.result.ok /\ files[path \o "foo.json"] = Str(FooText)
    /\ files[path \o "foo.bin"] = Undefined

\* C24: decodeAppData never raises an error, and it returns Absent only
\* when the text is not valid JSON: a valid JSON text decodes to a value,
\* whatever the payload of its tagged strings.
C24_AbsentOnlyForInvalidJSON ==
    (codec.pc = "decoded" /\ JSONparse(codec.stringData.val).ok)
        => codec.decoded # Undefined

\* C25: a FileAppDataStorage in no-op mode stores nothing: every read
\* returns Absent, every write and delete completes without error and
\* without an operation on the file system, no file or directory appears,
\* and a read after a write returns Absent.
C25_NoOpStore ==
    [][isNoOp =>
        /\ last'.op = "read" => last'.result = Ok(Undefined)
        /\ last'.op \in {"write", "delete"} => last'.result = Ok(Undefined)
        /\ last'.op \in {"read", "write", "delete"} => Backend(last') = <<>>
        /\ (last.op = "write" /\ last'.op = "read") => last'.data = Undefined
        /\ files' = [k \in StoreKeys |-> Undefined]
        /\ dirs' = {"."}
        /\ pending' = Undefined]_vars

\* The no-op storage read nothing under the key it had written.
C25_Witness ==
    /\ isNoOp /\ provider = "File" /\ last.op = "read"
    /\ last.result = Ok(Undefined) /\ last.prims[1].backend = <<>>

(***************************************************************************)
(* MemoryTransport.                                                        *)
(***************************************************************************)
MapNames(map) == {map[i][1] : i \in 1..Len(map)}

\* C22: addNotificationCallback(name, cb) with no callback under name registers
\* cb, calls it once with (undefined, the current messages) and returns true;
\* with one already under name it returns false, keeps the existing callback
\* and calls nothing. removeNotificationCallback(name) takes the entry out,
\* only addNotificationCallback puts one in, and a logged message is notified
\* to exactly the callbacks registered at that time, so that a removed
\* callback is not called for later messages.
C22_NotificationCallbacks ==
    [][LET t == memoryTransport
           e == memoryTransport'.event
       IN  (t.pc = "attached" /\ memoryTransport' # t) =>
            /\ (e.op = "add" /\ ~MapHas(t.callbacks, e.name)) =>
                    /\ e.returned = Bool(TRUE)
                    /\ memoryTransport'.callbacks = t.callbacks \o << <<e.name, e.cb>> >>
                    /\ e.calls = <<Notification(e.cb, Undefined, t.messages)>>
            /\ (e.op = "add" /\ MapHas(t.callbacks, e.name)) =>
                    /\ e.returned = Bool(FALSE)
                    /\ memoryTransport'.callbacks = t.callbacks
                    /\ e.calls = <<>>
            /\ e.op = "remove" =>
                    /\ ~MapHas(memoryTransport'.callbacks, e.name)
                    /\ e.calls = <<>>
            /\ e.op # "add" => MapNames(memoryTransport'.callbacks) \subseteq MapNames(t.callbacks)
            /\ e.op = "log" =>
                    /\ memoryTransport'.callbacks = t.callbacks
                    /\ Len(e.calls) = Len(t.callbacks)
                    /\ \A i \in 1..Len(e.calls) :
                            /\ e.calls[i].cb = t.callbacks[i][2]
                            /\ e.calls[i].message = memoryTransport'.messages[Len(memoryTransport'.messages)]
                            /\ e.calls[i].messages = memoryTransport'.messages]_vars

\* A second registration under a name in use, with another callback, refused
\* while messages are held.
C22_Witness ==
    /\ memoryTransport.pc = "attached"
    /\ memoryTransport.event.op = "add"
    /\ memoryTransport.event.returned = Bool(FALSE)
    /\ MapHas(memoryTransport.callbacks, memoryTransport.event.name)
    /\ MapGet(memoryTransport.callbacks, memoryTransport.event.name) # memoryTransport.event.cb
    /\ Len(memoryTransport.messages) > 0

\* C26: the number of stored messages never exceeds maximumLength; a message
\* logged while the array is at its maximum leaves truncateLength of the
\* newest before it is appended; truncateLength is at most 80% of
\* maximumLength, 50% by default.
C26_LengthBounded ==
    (memoryTransport.pc = "attached" /\ memoryTransport.maximumLength > 0) =>
        /\ Len(memoryTransport.messages) <= memoryTransport.maximumLength
        /\ memoryTransport.truncateLength * 10 <= memoryTransport.maximumLength * 8


(***************************************************************************)
(* i18nInit.                                                               *)
(***************************************************************************)
\* C27: over any calls of i18nInit for one instance, one started while an
\* earlier one is awaiting included, init is performed at most once (here
\* even when i18next finishes every init before init returns), and a call
\* made once the instance is initialized only returns the default bundle.
C27_InitAtMostOnce ==
    (/\ i18n.pc = "instance"
     /\ \A i \in 1..Len(i18n.inits) : i18n.inits[i].timing = "before init returns") =>
        /\ Len(i18n.inits) <= 1
        /\ \A caller \in I18nCallers :
                (i18n.calls[caller].pc = "returned" /\ i18n.calls[caller].trace = <<>>) =>
                    i18n.calls[caller].result = "defaultResourceBundle"

\* What a call does up to its own init when it initializes and merges each
\* dependency in argument order.
RECURSIVE InOrder(_)
InOrder(n) ==
    IF n = 0 THEN <<>>
    ELSE InOrder(n - 1) \o <<I18nEvent("dependencyInit", n), I18nEvent("merge", n)>>

\* C28: a call of i18nInit on an uninitialized instance initializes every
\* dependency and merges its bundle, in argument order, before it starts the
\* instance's own init; a namespace defined twice for a language makes the
\* call fail with the duplicate-namespace error without the init.
C28_DependenciesFirst ==
    (i18n.pc = "instance" /\ i18n.revision \in {"await", "chain"}) =>
        \A caller \in I18nCallers :
            LET call == i18n.calls[caller]
                n == Len(i18n.dependencies)
            IN  /\ I18nEvent("init", 0) \in SeqRange(call.trace) =>
                        /\ Len(call.trace) > 2 * n
                        /\ SubSeq(call.trace, 1, 2 * n + 1) = InOrder(n) \o <<I18nEvent("init", 0)>>
                /\ call.result = "Duplicate namespace" =>
                        /\ I18nEvent("init", 0) \notin SeqRange(call.trace)
                        /\ \A i \in 1..Len(i18n.inits) : i18n.inits[i].caller # caller


(***************************************************************************)
(* The i18n module with pending resource bundles.                          *)
(***************************************************************************)
\* The bundles that wait: in pendingResourceBundles or with a call of
\* i18nInit that has taken them and awaits the init.
Waiting(m) ==
    (IF m.pendingResourceBundles = Undefined THEN {}
     ELSE SeqRange(m.pendingResourceBundles.val))
    \cup UNION {SeqRange(m.calls[caller].initResourceBundles) : caller \in I18nCallers}

\* C29: a bundle passed before i18nInit is held pending and added to i18next
\* once, in the order given, when the initialization completes; one passed
\* after it is added directly; no bundle is lost, and none is added before
\* i18next is initialized, one passed while i18nInit is awaiting included;
\* i18nInit returns true for the first call and false for every later one.
C29_PendingBundles ==
    pendingI18n.pc = "module" =>
        LET m == pendingI18n
            store == m.store
        IN  /\ \A i \in 1..Len(store) : store[i].isInitialized
            /\ \A i, j \in 1..Len(store) :
                    i < j => /\ store[i].bundle # store[j].bundle
                             /\ (store[i].how = "pending" /\ store[j].how = "pending") =>
                                    store[i].bundle < store[j].bundle
            /\ \A bundle \in 1..m.passed :
                    \/ bundle \in Waiting(m)
                    \/ \E i \in 1..Len(store) : store[i].bundle = bundle
            /\ (\E caller \in I18nCallers : m.calls[caller].result = "true") =>
                    m.pendingResourceBundles = Undefined
            /\ \A i \in 1..Len(m.order) :
                    m.calls[m.order[i]].pc = "returned" =>
                        m.calls[m.order[i]].result = (IF i = 1 THEN "true" ELSE "false")


(***************************************************************************)
(* The URL functions.                                                      *)
(***************************************************************************)
\* The version strings of the form major.minor.patch, -alpha or -beta and
\* .12 digits optional, with what they say: s is cut at i, j and k.
VersionForms(s) ==
    {[major |-> SubSeq(s, 1, i - 1), minor |-> SubSeq(s, i + 1, j - 1),
      identifier |-> identifier] :
        <<i, j, k, identifier>> \in
            {c \in (1..Len(s)) \X (1..Len(s)) \X (1..(Len(s) + 1)) \X {"", "alpha", "beta"} :
                /\ 1 < c[1] /\ c[1] + 1 < c[2] /\ c[2] + 1 < c[3]
                /\ CharAt(s, c[1]) = "." /\ CharAt(s, c[2]) = "."
                /\ AllDigits(SubSeq(s, 1, c[1] - 1))
                /\ AllDigits(SubSeq(s, c[1] + 1, c[2] - 1))
                /\ AllDigits(SubSeq(s, c[2] + 1, c[3] - 1))
                /\ LET rest == From(s, c[3])
                       dateTime == From(rest, Len(c[4]) + 3)
                   IN  IF c[4] = "" THEN rest = ""
                       ELSE \/ rest = "-" \o c[4]
                            \/ /\ rest = "-" \o c[4] \o "." \o dateTime
                               /\ Len(dateTime) = DateTimeDigits
                               /\ AllDigits(dateTime)}}

\* major.minor as the URL shows it: the numbers, not their digits as given.
MajorMinor(form) ==
    NatToStr(StrToNat(form.major)) \o "." \o NatToStr(StrToNat(form.minor))

Relative(nonAlphaRelativeURL) ==
    IF nonAlphaRelativeURL \in {Undefined, Str("")} THEN ""
    ELSE "/" \o nonAlphaRelativeURL.val

\* C30: baseURL, phaseURL and websiteURL give the alpha URL unchanged for an
\* alpha version, the website base URL + "/beta/v" + major + "." + minor + the
\* relative URL for a beta version, the website base URL + the relative URL
\* for a production version (websiteURL with "/v" + major + "." + minor in
\* between when includeVersionInProduction is true); the relative URL is "/"
\* + itself only when defined and not empty; any other version string makes
\* the call fail with the invalid-version error.
C30_PhaseURLs ==
    url.pc = "returned" =>
        LET forms == VersionForms(url.version)
            base == "https://aidc-toolkit.com"
        IN  /\ forms = {} =>
                    /\ ~url.result.ok
                    /\ url.result.err = "Invalid package version " \o url.version
            /\ \A form \in forms :
                    url.result =
                        Ok(CASE form.identifier = "alpha" -> url.alphaURL
                             [] form.identifier = "beta" ->
                                    base \o "/beta/v" \o MajorMinor(form)
                                         \o Relative(url.nonAlphaRelativeURL)
                             [] OTHER ->
                                    base \o (IF url.includeVersionInProduction
                                             THEN "/v" \o MajorMinor(form) ELSE "")
                                         \o Relative(url.nonAlphaRelativeURL))

\* websiteURL for a production version with the version asked for.
C30_Witness ==
    /\ url.pc = "returned"
    /\ url.function = "websiteURL"
    /\ url.version = "10.0.1"
    /\ url.includeVersionInProduction
    /\ url.nonAlphaRelativeURL = Str("api")
    /\ url.result = Ok("https://aidc-toolkit.com/v10.0/api")


====
